---- MODULE Spec2Model ----
(***************************************************************************)
(* Model of the inventory distribution engines of core/distributor.py      *)
(* (StockDistributor) and core/balancer.py (InventoryBalancer), together   *)
(* with the helpers of core/models.py and core/sales_parser.py they use.   *)
(*                                                                         *)
(* Representation of Python values:                                        *)
(*  - a string is the tuple of its whitespace-separated tokens, so that    *)
(*    "125004 EKT-PC-Grinvich" is <<"125004", "EKT-PC-Grinvich">>, the     *)
(*    pool name is <<"Stock">> and a store code is <<"125004">>;           *)
(*    s.split()[0] is <<s[1]>>.  Cyrillic labels are transliterated.       *)
(*  - a product name is the tuple of its "_"-separated parts.              *)
(*  - a spreadsheet cell is <<kind, n>> with kind one of "num", "nan",     *)
(*    "empty", "placeholder", "text"; n is the number of a "num" cell.     *)
(*  - a DataFrame is [columns |-> set of store columns, rows |-> Seq],     *)
(*    a row's pandas index is its position (1-based here).                 *)
(*  - None is the empty tuple <<>> where a string is expected.             *)
(***************************************************************************)
EXTENDS Integers, Sequences, FiniteSets, TLC

VARIABLES
    df,                         \* the caller's table
    config,                     \* DistributionConfig
    sales_data,                 \* SalesPriorityData or None
    source,                     \* "stock" | "photo" (StockDistributor only)
    pc,                         \* position of the running pass
    prod_i,                     \* distributor: index into product_data
    store_i,                    \* distributor: index into full_priority
    full_priority,              \* distributor: the current product's store list
    row_i,                      \* balancer: index into df_filtered
    remaining_stock,            \* distributor: original_idx -> remaining
    previews_dict,              \* distributor: previews in insertion order
    skipped_rows_reasons,       \* distributor: original_idx -> count | -1
    skipped_stores_per_row,     \* distributor: original_idx -> Seq(SkippedStore)
    min_sizes_skipped_rows,     \* distributor: set of original_idx
    products_under_4_sizes,     \* distributor: set of product names
    products_using_fallback,    \* distributor: set of product names
    working_inventory,          \* balancer: <<product, variant, store>> -> qty
    partner_transfer_decisions, \* balancer: <<product, partner>> -> BOOLEAN
    previews,                   \* the list preview() returns
    engine,                     \* the caller's object: "distributor" | "balancer" | "sales_parser"
    returned,                   \* the caller's record of the lists returned so far
    results,                    \* the list of TransferResult execute() returns
    original_file,              \* the workbook handed to generate_updated_inventory
    updated,                    \* (worksheet, warnings) of apply_transfers_to_inventory
    cell_str,                   \* sales parser: the label of the row being read
    label_id                    \* sales parser: store_id = extract_store_id(cell_str)

vars == <<df, config, sales_data, source, pc, prod_i, store_i, full_priority, row_i,
          remaining_stock, previews_dict, skipped_rows_reasons,
          skipped_stores_per_row, min_sizes_skipped_rows,
          products_under_4_sizes, products_using_fallback,
          working_inventory, partner_transfer_decisions, previews,
          engine, returned, results, original_file, updated, cell_str, label_id>>

inputs == <<df, config, sales_data, source>>

distVars == <<prod_i, store_i, full_priority, remaining_stock, previews_dict,
              skipped_rows_reasons, skipped_stores_per_row,
              min_sizes_skipped_rows, products_under_4_sizes,
              products_using_fallback>>

balVars == <<row_i, working_inventory, partner_transfer_decisions>>

outVars == <<results, original_file, updated>>

labelVars == <<cell_str, label_id>>

callerVars == <<engine, returned, outVars, labelVars>>

(***************************************************************************)
(* Program constants                                                       *)
(***************************************************************************)
MIN_SIZES_TO_ADD == 3
MIN_PRODUCT_SIZES_FOR_RULE == 4
MIN_SIZES_THRESHOLD == 2
DEFAULT_BALANCE_THRESHOLD == 2
header_row == 7

None == <<>>
Pool == <<"Stock">>

S125004 == <<"125004", "EKT-PC-Grinvich">>
S125005 == <<"125005", "EKT-PC-Mega">>
S125007 == <<"125007", "MSK-PC-Gagarinsky">>
S125008 == <<"125008", "MSK-PC-RIO">>
S129877 == <<"129877", "MSK-PC-Mega-1">>

STORE_COLS == <<S125007, S125004, S125005>>
ALL_STORES == <<S125007, S125004, S125005, S125008, S129877>>
STORE_BALANCE_PAIRS == << <<"125004", "125005">>, <<"125008", "129877">> >>

(***************************************************************************)
(* Generic sequence helpers                                                *)
(***************************************************************************)
Range(s) == {s[i] : i \in DOMAIN s}

Contains(s, x) == \E i \in DOMAIN s : s[i] = x

\* list.index(x): position of the first occurrence (1-based), 0 if absent
IndexOf(s, x) ==
    IF Contains(s, x) THEN CHOOSE i \in DOMAIN s : s[i] = x /\ \A j \in 1..(i-1) : s[j] # x
    ELSE 0

RECURSIVE SumSeq(_)
SumSeq(s) == IF s = <<>> THEN 0 ELSE Head(s) + SumSeq(Tail(s))

\* the distinct elements of s in order of first appearance
RECURSIVE Distinct(_)
Distinct(s) ==
    IF s = <<>> THEN <<>>
    ELSE LET init == Distinct(SubSeq(s, 1, Len(s) - 1))
             x == s[Len(s)]
         IN IF Contains(init, x) THEN init ELSE Append(init, x)

(***************************************************************************)
(* core/models.py, core/sales_parser.py: helpers                           *)
(***************************************************************************)
Num(n) == <<"num", n>>
NaN == <<"nan", 0>>

\* get_stock_value: NaN, "" and the sub-header label give 0, a number gives
\* int(float(val)), and a string float() rejects gives 0
get_stock_value(val) ==
    IF val[1] \in {"nan", "empty", "placeholder"} THEN 0
    ELSE IF val[1] = "num" THEN val[2]
    ELSE 0

\* int() of a token of digits; 0 stands for a token the pattern rejects
DigitsOf(tok) ==
    CASE tok = "125004" -> 125004
      [] tok = "125005" -> 125005
      [] tok = "125007" -> 125007
      [] tok = "125008" -> 125008
      [] tok = "129877" -> 129877
      [] tok = "0125004" -> 125004
      [] tok = "0125005" -> 125005
      [] OTHER -> 0

\* extract_store_id: the leading code of "<code> <name>", None (0) otherwise
extract_store_id(store_name) ==
    IF Len(store_name) < 2 THEN 0 ELSE DigitsOf(store_name[1])

\* build_store_id_map: id -> the last name of the list carrying that id
build_store_id_map(store_names) ==
    LET ids == {extract_store_id(store_names[i]) : i \in DOMAIN store_names} \ {0}
    IN [id \in ids |->
          store_names[CHOOSE i \in DOMAIN store_names :
                        /\ extract_store_id(store_names[i]) = id
                        /\ \A j \in (i+1)..Len(store_names) :
                              extract_store_id(store_names[j]) # id]]

\* dict.get(store_id, default)
MapGet(m, k, default) == IF k \in DOMAIN m THEN m[k] ELSE default

\* tuple comparison of two-element integer keys
KeyLess(a, b) == a[1] < b[1] \/ (a[1] = b[1] /\ a[2] < b[2])

\* sorted(): stable, by the key field of each element
RECURSIVE SortedByKey(_)
SortedByKey(s) ==
    IF s = <<>> THEN <<>>
    ELSE LET init == SortedByKey(SubSeq(s, 1, Len(s) - 1))
             x == s[Len(s)]
             \* x goes after every element whose key is not greater
             n == Cardinality({i \in DOMAIN init : ~KeyLess(x.key, init[i].key)})
         IN SubSeq(init, 1, n) \o <<x>> \o SubSeq(init, n + 1, Len(init))

\* a variant of get_priority_order whose key has lost its minus sign
PriorityOrderAscending(store_sales, fallback_priority, store_id_map) ==
    LET sort_key(store_sale) ==
            LET store_name == MapGet(store_id_map, store_sale.store_id, None)
                fallback_idx == IF Contains(fallback_priority, store_name)
                                THEN IndexOf(fallback_priority, store_name)
                                ELSE Len(fallback_priority) + 1
            IN <<store_sale.quantity, fallback_idx>>
        keyed == [i \in DOMAIN store_sales |->
                    [key |-> sort_key(store_sales[i]), val |-> store_sales[i]]]
        sorted_sales == SortedByKey(keyed)
        names == [i \in DOMAIN sorted_sales |->
                    MapGet(store_id_map, sorted_sales[i].val.store_id, None)]
    IN SelectSeq(names, LAMBDA n : n # None)

\* ProductSalesData.get_priority_order
get_priority_order(store_sales, fallback_priority, store_id_map) ==
    LET sort_key(store_sale) ==
            LET store_name == MapGet(store_id_map, store_sale.store_id, None)
                fallback_idx == IF Contains(fallback_priority, store_name)
                                THEN IndexOf(fallback_priority, store_name)
                                ELSE Len(fallback_priority) + 1
            IN <<0 - store_sale.quantity, fallback_idx>>
        keyed == [i \in DOMAIN store_sales |->
                    [key |-> sort_key(store_sales[i]), val |-> store_sales[i]]]
        sorted_sales == SortedByKey(keyed)
        names == [i \in DOMAIN sorted_sales |->
                    MapGet(store_id_map, sorted_sales[i].val.store_id, None)]
    IN SelectSeq(names, LAMBDA n : n # None)

\* a variant of get_product_priority that reports an entry as found even
\* when none of its rows names a known store
ProductPriorityFoundWhenEmpty(sd, product_code, fallback_priority, store_id_map) ==
    IF product_code \in DOMAIN sd.products
    THEN <<get_priority_order(sd.products[product_code], fallback_priority, store_id_map), TRUE>>
    ELSE <<fallback_priority, FALSE>>

\* SalesPriorityData.get_product_priority: <<priority, found>>
get_product_priority(sd, product_code, fallback_priority, store_id_map) ==
    IF product_code \in DOMAIN sd.products
       /\ get_priority_order(sd.products[product_code], fallback_priority, store_id_map) # <<>>
    THEN <<get_priority_order(sd.products[product_code], fallback_priority, store_id_map), TRUE>>
    ELSE <<fallback_priority, FALSE>>

\* extract_product_code_from_input: everything after the first "_", or None
extract_product_code_from_input(nomenclature) ==
    IF Len(nomenclature) < 2 THEN None
    ELSE IF Tail(nomenclature) = <<"">> THEN None
    ELSE Tail(nomenclature)

\* a variant of active_stores that forgets the exclusion list
AllStoresActive(cfg) == cfg.store_priority

\* DistributionConfig.active_stores
active_stores(cfg) ==
    SelectSeq(cfg.store_priority, LAMBDA s : s \notin cfg.excluded_stores)

\* DistributionConfig.get_paired_store: the other member of the pair holding
\* store_code, None when it is in no pair
get_paired_store(cfg, store_code) ==
    LET pairs == cfg.store_balance_pairs
        hit == {i \in DOMAIN pairs : pairs[i][1] = store_code[1] \/ pairs[i][2] = store_code[1]}
    IN IF hit = {} THEN None
       ELSE LET i == CHOOSE k \in hit : \A j \in hit : k <= j
            IN IF pairs[i][1] = store_code[1] THEN <<pairs[i][2]>> ELSE <<pairs[i][1]>>

\* should_apply_min_sizes_rule
should_apply_min_sizes_rule(store_sizes_count, total_product_sizes) ==
    store_sizes_count < MIN_SIZES_THRESHOLD /\ total_product_sizes >= MIN_PRODUCT_SIZES_FOR_RULE

(***************************************************************************)
(* The table                                                               *)
(***************************************************************************)
IsNaNName(product) == product = <<"nan">>
IsEmptyName(product) == product = <<"">>

\* df_filtered: the pandas indices of the rows with a product name
df_filtered(d) ==
    SelectSeq([i \in DOMAIN d.rows |-> i],
              LAMBDA i : ~IsNaNName(d.rows[i].product) /\ ~IsEmptyName(d.rows[i].product))

\* row.get(store, 0) through get_stock_value
StoreQty(d, i, store) ==
    IF store \in d.columns THEN get_stock_value(d.rows[i].stores[store]) ELSE 0

\* available_stores: the configured stores that are columns of the table
available_stores(cfg, d) == SelectSeq(cfg.store_priority, LAMBDA s : s \in d.columns)

\* the product names of product_data, in order of first appearance
ProductOrder(d) == Distinct([k \in DOMAIN df_filtered(d) |-> d.rows[df_filtered(d)[k]].product])

\* product_data[product]["rows"]: the indices of the product's rows, in order
ProductRows(d, product) == SelectSeq(df_filtered(d), LAMBDA i : d.rows[i].product = product)

\* excel_row = header_row + 3 + original_idx, original_idx counted from 0
excel_row(i) == header_row + 3 + (i - 1)

(***************************************************************************)
(* Records of core/models.py                                               *)
(***************************************************************************)
Transfer(sender, receiver, quantity) ==
    [sender |-> sender, receiver |-> receiver, quantity |-> quantity]

SkippedStore(store_name, reason, existing_qty) ==
    [store_name |-> store_name, reason |-> reason, existing_qty |-> existing_qty]

\* str(variant) if pd.notna(variant) else ""
VariantStr(v) == IF v = "nan" THEN "" ELSE v

\* TransferPreview(row_index, product_name, variant) with its defaults;
\* original_idx is the key the engine files it under
TransferPreview(d, i) ==
    [original_idx |-> i,
     row_index |-> excel_row(i),
     product_name |-> d.rows[i].product,
     variant |-> VariantStr(d.rows[i].variant),
     transfers |-> <<>>,
     skipped_stores |-> <<>>,
     skip_reason |-> None,
     uses_standard_distribution |-> FALSE,
     uses_fallback_priority |-> FALSE,
     min_sizes_skipped |-> FALSE]

\* TransferPreview.total_quantity
total_quantity(preview) ==
    SumSeq([k \in DOMAIN preview.transfers |-> preview.transfers[k].quantity])

\* defaultdict(list)[k].append(x)
ListAppend(f, k, x) ==
    IF k \in DOMAIN f THEN [f EXCEPT ![k] = Append(@, x)] ELSE f @@ (k :> <<x>>)

(***************************************************************************)
(* core/distributor.py: StockDistributor                                   *)
(***************************************************************************)
\* _get_source_name
get_source_name(src) == IF src = "photo" THEN <<"Photo">> ELSE <<"Stock">>

\* row.get(source_column, 0) through get_stock_value (_get_source_column)
SourceQty(d, src, i) ==
    IF src = "photo" THEN get_stock_value(d.rows[i].photo)
    ELSE get_stock_value(d.rows[i].stock)

\* StockDistributor._get_product_priority:
\* <<active priority, uses_fallback, full priority with excluded>>
Dist_get_product_priority(cfg, sd, product_name, avail) ==
    LET full_static == SelectSeq(cfg.store_priority, LAMBDA s : Contains(avail, s))
        fallback_priority == SelectSeq(active_stores(cfg), LAMBDA s : Contains(avail, s))
        product_code == extract_product_code_from_input(product_name)
        looked == get_product_priority(sd, product_code, cfg.store_priority,
                                       build_store_id_map(cfg.store_priority))
        priority == looked[1]
        active_priority ==
            SelectSeq(priority, LAMBDA s : Contains(avail, s) /\ Contains(active_stores(cfg), s))
        full_priority_sales == SelectSeq(priority, LAMBDA s : Contains(avail, s))
    IN IF ~sd.loaded THEN <<fallback_priority, FALSE, full_static>>
       ELSE IF product_code = None THEN <<fallback_priority, TRUE, full_static>>
       ELSE IF ~looked[2] THEN <<fallback_priority, TRUE, full_static>>
       ELSE <<active_priority
                \o SelectSeq(fallback_priority, LAMBDA s : ~Contains(active_priority, s)),
              FALSE,
              full_priority_sales
                \o SelectSeq(full_static, LAMBDA s : ~Contains(full_priority_sales, s))>>

\* _get_store_sizes_count: distinct variants the store holds (qty > 0)
get_store_sizes_count(d, rows, store) ==
    Cardinality({VariantStr(d.rows[rows[k]].variant) :
                    k \in {j \in DOMAIN rows : StoreQty(d, rows[j], store) > 0}})

\* len(sizes_in_stock): the product's rows whose source quantity is > 0
available_sizes_count(d, src, rows) ==
    Cardinality({k \in DOMAIN rows : SourceQty(d, src, rows[k]) > 0})

\* the dict previews_dict, kept as the list of its values in insertion order
InPreviews(pd, i) == \E k \in DOMAIN pd : pd[k].original_idx = i

\* previews_dict[i].transfers.append(t), creating the preview when missing
AppendTransfer(pd, d, i, t) ==
    LET pd1 == IF InPreviews(pd, i) THEN pd ELSE Append(pd, TransferPreview(d, i))
    IN [k \in DOMAIN pd1 |->
          IF pd1[k].original_idx = i
          THEN [pd1[k] EXCEPT !.transfers = Append(@, t)]
          ELSE pd1[k]]

\* lines 253-266: an excluded store is recorded on the rows where it holds 0
RECURSIVE ExcludedRows(_, _, _, _, _)
ExcludedRows(sk, d, rows, k, store) ==
    IF k > Len(rows) THEN sk
    ELSE ExcludedRows(
            IF StoreQty(d, rows[k], store) = 0
            THEN ListAppend(sk, rows[k], SkippedStore(store, "excluded", 0))
            ELSE sk,
            d, rows, k + 1, store)

\* lines 276-292: fewer than MIN_SIZES_TO_ADD sizes in stock, skip the store.
\* st is [reasons, mss, sk]
RECURSIVE MinSizesSkipRows(_, _, _, _, _, _)
MinSizesSkipRows(st, d, rows, k, store, n) ==
    IF k > Len(rows) THEN st
    ELSE MinSizesSkipRows(
            IF StoreQty(d, rows[k], store) = 0
            THEN [reasons |-> IF rows[k] \in DOMAIN st.reasons THEN st.reasons
                              ELSE st.reasons @@ (rows[k] :> <<"min_sizes_not_met", n>>),
                  mss |-> st.mss \cup {rows[k]},
                  sk |-> ListAppend(st.sk, rows[k], SkippedStore(store, "min_sizes", 0))]
            ELSE st,
            d, rows, k + 1, store, n)

\* lines 294-299: the rows with stock that the store does not have
transferable_rows(d, src, rem, rows, store) ==
    SelectSeq(rows, LAMBDA i : /\ SourceQty(d, src, i) > 0
                               /\ StoreQty(d, i, store) = 0
                               /\ rem[i] > 0)

\* lines 304-319: one unit of every transferable row. st is [rem, pd]
RECURSIVE TransferAll(_, _, _, _, _, _)
TransferAll(st, d, src, trows, k, store) ==
    IF k > Len(trows) THEN st
    ELSE TransferAll(
            IF st.rem[trows[k]] > 0
            THEN [rem |-> [st.rem EXCEPT ![trows[k]] = @ - 1],
                  pd |-> AppendTransfer(st.pd, d, trows[k],
                                        Transfer(get_source_name(src), store, 1))]
            ELSE st,
            d, src, trows, k + 1, store)

\* lines 321-351: normal distribution of one store. st is [rem, pd, sk]
RECURSIVE NormalRows(_, _, _, _, _, _)
NormalRows(st, d, src, rows, k, store) ==
    IF k > Len(rows) THEN st
    ELSE LET i == rows[k]
             store_qty == StoreQty(d, i, store)
         IN NormalRows(
                IF store_qty > 0
                THEN [st EXCEPT !.sk = ListAppend(@, i, SkippedStore(store, "has_stock", store_qty))]
                ELSE IF st.rem[i] > 0
                THEN [st EXCEPT !.rem = [@ EXCEPT ![i] = @ - 1],
                                !.pd = AppendTransfer(@, d, i,
                                          Transfer(get_source_name(src), store, 1))]
                ELSE st,
                d, src, rows, k + 1, store)

(***************************************************************************)
(* StockDistributor.preview as a state machine: one step per product       *)
(* (lines 233-251), one per store of its priority list (lines 253-351),    *)
(* and the closing step (lines 353-387).                                   *)
(***************************************************************************)
CurProduct == ProductOrder(df)[prod_i]
CurRows == ProductRows(df, CurProduct)
CurPriority ==
    Dist_get_product_priority(config, sales_data, CurProduct, available_stores(config, df))
CurStore == full_priority[store_i]

\* a variant of DistAdvance that leaves the product after any store
LeaveProduct ==
    /\ UNCHANGED full_priority
    /\ store_i' = 1
    /\ prod_i' = prod_i + 1
    /\ pc' = "dist_product"

\* the store loop is over: next store, or next product
DistAdvance ==
    /\ UNCHANGED full_priority
    /\ IF store_i < Len(full_priority)
       THEN /\ store_i' = store_i + 1
            /\ UNCHANGED <<pc, prod_i>>
       ELSE /\ store_i' = 1
            /\ prod_i' = prod_i + 1
            /\ pc' = "dist_product"

\* lines 233-251: enter the next product of product_data
DistBeginProduct ==
    /\ pc = "dist_product"
    /\ prod_i <= Len(ProductOrder(df))
    /\ products_under_4_sizes' =
          IF Len(CurRows) < 4 THEN products_under_4_sizes \cup {CurProduct}
          ELSE products_under_4_sizes
    /\ products_using_fallback' =
          IF CurPriority[2] /\ sales_data.loaded
          THEN products_using_fallback \cup {CurProduct}
          ELSE products_using_fallback
    /\ store_i' = 1
    /\ full_priority' = CurPriority[3]
    /\ IF CurPriority[3] = <<>>
       THEN prod_i' = prod_i + 1 /\ pc' = "dist_product"
       ELSE prod_i' = prod_i /\ pc' = "dist_store"
    /\ UNCHANGED <<inputs, callerVars, balVars, remaining_stock, previews_dict,
                   skipped_rows_reasons, skipped_stores_per_row,
                   min_sizes_skipped_rows, previews>>

\* lines 253-266: the store is excluded
DistExcludedStore ==
    /\ pc = "dist_store"
    /\ CurStore \in config.excluded_stores
    /\ skipped_stores_per_row' =
          ExcludedRows(skipped_stores_per_row, df, CurRows, 1, CurStore)
    /\ DistAdvance
    /\ UNCHANGED <<inputs, callerVars, balVars, remaining_stock, previews_dict,
                   skipped_rows_reasons, min_sizes_skipped_rows,
                   products_under_4_sizes, products_using_fallback, previews>>

\* a variant of MinSizesRuleApplies that forgets the size of the family
MinSizesRuleAnyFamily(d, rows, store) ==
    get_store_sizes_count(d, rows, store) <= 1

\* line 274: the minimum sizes rule applies to the store
MinSizesRuleApplies(d, rows, store) ==
    get_store_sizes_count(d, rows, store) <= 1 /\ Len(rows) >= 4

\* lines 274-292: rule applies, fewer than 3 sizes in stock
DistMinSizesSkip ==
    /\ pc = "dist_store"
    /\ CurStore \notin config.excluded_stores
    /\ MinSizesRuleApplies(df, CurRows, CurStore)
    /\ available_sizes_count(df, source, CurRows) < MIN_SIZES_TO_ADD
    /\ LET st == MinSizesSkipRows(
                    [reasons |-> skipped_rows_reasons,
                     mss |-> min_sizes_skipped_rows,
                     sk |-> skipped_stores_per_row],
                    df, CurRows, 1, CurStore,
                    available_sizes_count(df, source, CurRows))
       IN /\ skipped_rows_reasons' = st.reasons
          /\ min_sizes_skipped_rows' = st.mss
          /\ skipped_stores_per_row' = st.sk
    /\ DistAdvance
    /\ UNCHANGED <<inputs, callerVars, balVars, remaining_stock, previews_dict,
                   products_under_4_sizes, products_using_fallback, previews>>

\* a variant of MinSizesTransfer without the MIN_SIZES_TO_ADD test
MinSizesTransferNoVeto(rem, pd, d, src, rows, store) ==
    TransferAll([rem |-> rem, pd |-> pd], d, src,
                transferable_rows(d, src, rem, rows, store), 1, store)

\* lines 294-319: rule applies, all transferable sizes or none
MinSizesTransfer(rem, pd, d, src, rows, store) ==
    LET trows == transferable_rows(d, src, rem, rows, store)
    IN IF Len(trows) >= MIN_SIZES_TO_ADD
       THEN TransferAll([rem |-> rem, pd |-> pd], d, src, trows, 1, store)
       ELSE [rem |-> rem, pd |-> pd]

DistMinSizesTransfer ==
    /\ pc = "dist_store"
    /\ CurStore \notin config.excluded_stores
    /\ MinSizesRuleApplies(df, CurRows, CurStore)
    /\ available_sizes_count(df, source, CurRows) >= MIN_SIZES_TO_ADD
    /\ LET st == MinSizesTransfer(remaining_stock, previews_dict, df, source, CurRows, CurStore)
       IN /\ remaining_stock' = st.rem
          /\ previews_dict' = st.pd
    /\ DistAdvance
    /\ UNCHANGED <<inputs, callerVars, balVars, skipped_rows_reasons, skipped_stores_per_row,
                   min_sizes_skipped_rows, products_under_4_sizes,
                   products_using_fallback, previews>>

\* lines 321-351: normal distribution
DistNormal ==
    /\ pc = "dist_store"
    /\ CurStore \notin config.excluded_stores
    /\ ~MinSizesRuleApplies(df, CurRows, CurStore)
    /\ LET st == NormalRows([rem |-> remaining_stock, pd |-> previews_dict,
                             sk |-> skipped_stores_per_row],
                            df, source, CurRows, 1, CurStore)
       IN /\ remaining_stock' = st.rem
          /\ previews_dict' = st.pd
          /\ skipped_stores_per_row' = st.sk
    /\ DistAdvance
    /\ UNCHANGED <<inputs, callerVars, balVars, skipped_rows_reasons, min_sizes_skipped_rows,
                   products_under_4_sizes, products_using_fallback, previews>>

\* lines 353-361: previews for the rows without transfers, product by product
WithEmptyPreviews(pd, d) ==
    LET order == [k \in DOMAIN ProductOrder(d) |-> ProductRows(d, ProductOrder(d)[k])]
        missing == SelectSeq(df_filtered(d), LAMBDA i : ~InPreviews(pd, i))
        \* position of row i in the nested iteration over product_data
        pos(i) == <<IndexOf(ProductOrder(d), d.rows[i].product), i>>
        keyed == [k \in DOMAIN missing |-> [key |-> pos(missing[k]), val |-> missing[k]]]
        sorted == SortedByKey(keyed)
    IN pd \o [k \in DOMAIN sorted |-> TransferPreview(d, sorted[k].val)]

\* lines 363-383: the per-row status fields
WithStatus(preview, reasons, under4, fallback, mss, sk) ==
    [preview EXCEPT
        !.skip_reason = IF preview.original_idx \in DOMAIN reasons
                        THEN reasons[preview.original_idx] ELSE @,
        !.uses_standard_distribution = IF preview.product_name \in under4 THEN TRUE ELSE @,
        !.uses_fallback_priority = IF preview.product_name \in fallback THEN TRUE ELSE @,
        !.min_sizes_skipped = IF preview.original_idx \in mss THEN TRUE ELSE @,
        !.skipped_stores = IF preview.original_idx \in DOMAIN sk
                           THEN sk[preview.original_idx] ELSE @]

\* a variant of SortedByRowIndex that returns the previews as created
InCreationOrder(pd) == pd

\* lines 385-387: sorted(previews_dict.values(), key=row_index)
SortedByRowIndex(pd) ==
    LET keyed == [k \in DOMAIN pd |-> [key |-> <<pd[k].row_index, 0>>, val |-> pd[k]]]
        sorted == SortedByKey(keyed)
    IN [k \in DOMAIN sorted |-> sorted[k].val]

\* lines 353-387: close the pass
DistFinalize ==
    /\ pc = "dist_product"
    /\ prod_i > Len(ProductOrder(df))
    /\ LET all == WithEmptyPreviews(previews_dict, df)
           flagged == [k \in DOMAIN all |->
                          WithStatus(all[k], skipped_rows_reasons, products_under_4_sizes,
                                     products_using_fallback, min_sizes_skipped_rows,
                                     skipped_stores_per_row)]
       IN /\ previews_dict' = flagged
          /\ previews' = SortedByRowIndex(flagged)
    /\ pc' = "done"
    /\ UNCHANGED <<inputs, callerVars, balVars, prod_i, store_i, full_priority, remaining_stock,
                   skipped_rows_reasons, skipped_stores_per_row,
                   min_sizes_skipped_rows, products_under_4_sizes,
                   products_using_fallback>>

\* lines 197-231: the state preview() starts its loops in
DistStart ==
    /\ pc = "dist_product"
    /\ prod_i = 1
    /\ store_i = 1
    /\ full_priority = <<>>
    /\ remaining_stock = [i \in Range(df_filtered(df)) |-> SourceQty(df, source, i)]
    /\ previews_dict = <<>>
    /\ skipped_rows_reasons = <<>>
    /\ skipped_stores_per_row = <<>>
    /\ min_sizes_skipped_rows = {}
    /\ products_under_4_sizes = {}
    /\ products_using_fallback = {}
    /\ previews = <<>>

(***************************************************************************)
(* core/balancer.py: InventoryBalancer                                     *)
(***************************************************************************)
\* count_sizes_with_stock: the distinct sizes of the product the store holds
count_sizes_with_stock(d, product_rows, store) ==
    Cardinality({VariantStr(d.rows[product_rows[k]].variant) :
                    k \in {j \in DOMAIN product_rows : StoreQty(d, product_rows[j], store) > 0}})

\* InventoryBalancer._get_product_priority: <<product_stores, uses_fallback>>
Bal_get_product_priority(cfg, sd, product_name, avail) ==
    LET fallback_priority == SelectSeq(active_stores(cfg), LAMBDA s : Contains(avail, s))
        product_code == extract_product_code_from_input(product_name)
        looked == get_product_priority(sd, product_code, cfg.store_priority,
                                       build_store_id_map(cfg.store_priority))
        active_priority ==
            SelectSeq(looked[1], LAMBDA s : Contains(avail, s) /\ Contains(active_stores(cfg), s))
    IN IF ~sd.loaded THEN <<fallback_priority, FALSE>>
       ELSE IF product_code = None THEN <<fallback_priority, TRUE>>
       ELSE IF ~looked[2] THEN <<fallback_priority, TRUE>>
       ELSE <<active_priority
                \o SelectSeq(fallback_priority, LAMBDA s : ~Contains(active_priority, s)),
              FALSE>>

\* a variant of _find_store_by_code that does not compare the code
FindFirstStore(store_code, stores) == IF stores = <<>> THEN None ELSE stores[1]

\* _find_store_by_code: the first store whose name starts with "<code> "
find_store_by_code(store_code, stores) ==
    LET hit == {k \in DOMAIN stores : Len(stores[k]) >= 2 /\ stores[k][1] = store_code[1]}
    IN IF hit = {} THEN None
       ELSE stores[CHOOSE k \in hit : \A j \in hit : k <= j]

\* lines 184-189: working_inventory[(product, variant, store)] = qty, the
\* last row of a (product, variant) is the one whose quantities stay
InitialWorkingInventory(d, cfg) ==
    LET idx == Range(df_filtered(d))
        keyOf(i, s) == <<d.rows[i].product, VariantStr(d.rows[i].variant), s>>
        keys == {keyOf(i, s) : i \in idx, s \in Range(available_stores(cfg, d))}
        last(k) == CHOOSE i \in idx :
                      /\ keyOf(i, k[3]) = k
                      /\ \A j \in idx : keyOf(j, k[3]) = k => j <= i
    IN [k \in keys |-> StoreQty(d, last(k), k[3])]

\* a variant of stores_with_excess that leaves out the sort of line 231
ExcessInListOrder(d, cfg, product_stores, i) ==
    LET stores == Distinct(product_stores)
        over == SelectSeq(stores, LAMBDA s : StoreQty(d, i, s) > cfg.balance_threshold)
    IN [k \in DOMAIN over |-> <<over[k], StoreQty(d, i, over[k])>>]

\* lines 216-231: the stores of the row above the threshold, as
\* <<store, qty>>, highest quantity first, ties in dict order
stores_with_excess(d, cfg, product_stores, i) ==
    LET stores == Distinct(product_stores)
        over == SelectSeq(stores, LAMBDA s : StoreQty(d, i, s) > cfg.balance_threshold)
        keyed == [k \in DOMAIN over |->
                    [key |-> <<0 - StoreQty(d, i, over[k]), 0>>, val |-> over[k]]]
        sorted == SortedByKey(keyed)
    IN [k \in DOMAIN sorted |-> <<sorted[k].val, StoreQty(d, i, sorted[k].val)>>]

\* a variant of PartnerDecision that needs more than MIN_SIZES_TO_ADD sizes
PartnerDecisionStrict(d, cfg, product_rows, sender_store, partner_store) ==
    IF should_apply_min_sizes_rule(count_sizes_with_stock(d, product_rows, partner_store),
                                   Len(product_rows))
    THEN Cardinality({k \in DOMAIN product_rows :
                         /\ StoreQty(d, product_rows[k], sender_store) > cfg.balance_threshold
                         /\ StoreQty(d, product_rows[k], partner_store) = 0})
            > MIN_SIZES_TO_ADD
    ELSE TRUE

\* lines 257-275: may the partner receive this product from the sender
PartnerDecision(d, cfg, product_rows, sender_store, partner_store) ==
    LET partner_sizes_count == count_sizes_with_stock(d, product_rows, partner_store)
        transferable_sizes ==
            Cardinality({k \in DOMAIN product_rows :
                            /\ StoreQty(d, product_rows[k], sender_store) > cfg.balance_threshold
                            /\ StoreQty(d, product_rows[k], partner_store) = 0})
    IN IF should_apply_min_sizes_rule(partner_sizes_count, Len(product_rows))
       THEN transferable_sizes >= MIN_SIZES_TO_ADD
       ELSE TRUE

\* a variant of remaining_after_partner that forgets the unit sent
RemainingNotDecremented(excess, sends) == excess

\* line 293: remaining_excess once a unit went to the partner
remaining_after_partner(excess, sends) == IF sends THEN excess - 1 ELSE excess

\* lines 234-301: one sender of the row. st is [wi, ptd, preview]
\* a variant of partner_unit_recorded that leaves the working inventory as it is
PartnerUnitForgotten(wi, wi_key) == wi

\* line 292: working_inventory[(product_name, variant_str, partner_store)] = 1
partner_unit_recorded(wi, wi_key) ==
    IF wi_key \in DOMAIN wi THEN [wi EXCEPT ![wi_key] = 1] ELSE wi @@ (wi_key :> 1)

BalSender(st, d, cfg, product_stores, i, sender_store, sender_qty) ==
    LET product_name == d.rows[i].product
        variant_str == VariantStr(d.rows[i].variant)
        excess == sender_qty - cfg.balance_threshold
        sender_code == <<sender_store[1]>>
        partner_code == get_paired_store(cfg, sender_code)
        partner_store == IF partner_code = None THEN None
                         ELSE find_store_by_code(partner_code, product_stores)
        eligible == /\ partner_code # None
                    /\ partner_store # None
                    /\ partner_store \notin cfg.excluded_stores
        decision_key == <<product_name, partner_store>>
        ptd1 == IF eligible /\ decision_key \notin DOMAIN st.ptd
                THEN st.ptd @@ (decision_key :>
                        PartnerDecision(d, cfg, ProductRows(d, product_name),
                                        sender_store, partner_store))
                ELSE st.ptd
        wi_key == <<product_name, variant_str, partner_store>>
        sends == /\ eligible
                 /\ ptd1[decision_key]
                 /\ MapGet(st.wi, wi_key, 0) = 0
                 /\ excess > 0
        remaining_excess == remaining_after_partner(excess, sends)
        to_partner == IF sends
                      THEN Append(st.preview.transfers, Transfer(sender_code, partner_store, 1))
                      ELSE st.preview.transfers
        to_pool == IF remaining_excess > 0
                   THEN Append(to_partner, Transfer(sender_code, Pool, remaining_excess))
                   ELSE to_partner
    IN IF excess <= 0 THEN st
       ELSE [wi |-> IF sends THEN partner_unit_recorded(st.wi, wi_key) ELSE st.wi,
             ptd |-> ptd1,
             preview |-> [st.preview EXCEPT !.transfers = to_pool]]

RECURSIVE BalSenders(_, _, _, _, _, _, _)
BalSenders(st, d, cfg, product_stores, i, senders, k) ==
    IF k > Len(senders) THEN st
    ELSE BalSenders(BalSender(st, d, cfg, product_stores, i, senders[k][1], senders[k][2]),
                    d, cfg, product_stores, i, senders, k + 1)

\* lines 193-303: one row of df_filtered. st is [wi, ptd]; the result adds
\* the row's preview
BalRowStep(st, d, cfg, sd, i) ==
    LET pp == Bal_get_product_priority(cfg, sd, d.rows[i].product, available_stores(cfg, d))
        preview == [TransferPreview(d, i) EXCEPT !.uses_fallback_priority = pp[2] /\ sd.loaded]
    IN BalSenders([wi |-> st.wi, ptd |-> st.ptd, preview |-> preview],
                  d, cfg, pp[1], i, stores_with_excess(d, cfg, pp[1], i), 1)

\* InventoryBalancer.preview as a function of its arguments
RECURSIVE BalRows(_, _, _, _, _)
BalRows(st, d, cfg, sd, k) ==
    IF k > Len(df_filtered(d)) THEN st.previews
    ELSE LET r == BalRowStep([wi |-> st.wi, ptd |-> st.ptd], d, cfg, sd, df_filtered(d)[k])
         IN BalRows([wi |-> r.wi, ptd |-> r.ptd, previews |-> Append(st.previews, r.preview)],
                    d, cfg, sd, k + 1)

Bal_preview(d, cfg, sd) ==
    BalRows([wi |-> InitialWorkingInventory(d, cfg), ptd |-> <<>>, previews |-> <<>>],
            d, cfg, sd, 1)

(***************************************************************************)
(* InventoryBalancer.preview as a state machine: one step per row of       *)
(* df_filtered (lines 193-303); the pass returns after the last row.       *)
(***************************************************************************)
CurRow == df_filtered(df)[row_i]
CurProductStores ==
    Bal_get_product_priority(config, sales_data, df.rows[CurRow].product,
                             available_stores(config, df))[1]

BalAdvance ==
    /\ row_i' = row_i + 1
    /\ pc' = IF row_i < Len(df_filtered(df)) THEN "bal_rows" ELSE "done"

\* lines 226-228: no store of the row is above the threshold
BalRowNoExcess ==
    /\ pc = "bal_rows"
    /\ stores_with_excess(df, config, CurProductStores, CurRow) = <<>>
    /\ previews' = Append(previews,
          BalRowStep([wi |-> working_inventory, ptd |-> partner_transfer_decisions],
                     df, config, sales_data, CurRow).preview)
    /\ BalAdvance
    /\ UNCHANGED <<inputs, callerVars, distVars, working_inventory, partner_transfer_decisions>>

\* lines 230-303: the senders of the row, highest quantity first
BalRowSenders ==
    /\ pc = "bal_rows"
    /\ stores_with_excess(df, config, CurProductStores, CurRow) # <<>>
    /\ LET r == BalRowStep([wi |-> working_inventory, ptd |-> partner_transfer_decisions],
                           df, config, sales_data, CurRow)
       IN /\ working_inventory' = r.wi
          /\ partner_transfer_decisions' = r.ptd
          /\ previews' = Append(previews, r.preview)
    /\ BalAdvance
    /\ UNCHANGED <<inputs, callerVars, distVars>>

\* lines 163-191: the state preview() starts its row loop in
BalStart ==
    /\ pc = "bal_rows"
    /\ row_i = 1
    /\ working_inventory = InitialWorkingInventory(df, config)
    /\ partner_transfer_decisions = <<>>
    /\ previews = <<>>

(***************************************************************************)
(* Inputs of a StockDistributor pass                                       *)
(***************************************************************************)
\* before execute, generate_updated_inventory or the sales parser have run
NothingReturnedYet ==
    /\ results = <<>>
    /\ original_file = None
    /\ updated = None
    /\ cell_str = None
    /\ label_id = None

MaxSource == 2
MaxStoreQty == 1
MaxSales == 2

Variants == <<"S", "M", "L", "XL">>
ProductA == <<"Product A">>
ShortsC3 == <<"Shorts", "C3">>
ShortsC9 == <<"Shorts", "C9">>

Row(product, variant, stock, photo, stores) ==
    [product |-> product, variant |-> variant, stock |-> stock, photo |-> photo,
     stores |-> stores]

\* a DistributionConfig as get_config builds it
Config(priority, excluded, threshold, pairs) ==
    [store_priority |-> priority, excluded_stores |-> excluded,
     balance_threshold |-> threshold, store_balance_pairs |-> pairs]

NoSales == [loaded |-> FALSE, products |-> <<>>]
Sales(code, store_sales) == [loaded |-> TRUE, products |-> (code :> store_sales)]
StoreSales(store_id, quantity) == [store_id |-> store_id, quantity |-> quantity]

\* all sequences over S of length at most n
RECURSIVE SeqsUpTo(_, _)
SeqsUpTo(S, n) ==
    IF n = 0 THEN {<<>>}
    ELSE LET shorter == SeqsUpTo(S, n - 1)
         IN shorter \cup {Append(q, x) : q \in shorter, x \in S}

\* the sales indexes tried: none, and one product with up to MaxSales store rows
SalesEntries ==
    {StoreSales(125004, 1), StoreSales(125004, 2), StoreSales(125005, 1), StoreSales(125007, 2)}
SalesOptions == {NoSales} \cup {Sales(<<"C3">>, ss) : ss \in SeqsUpTo(SalesEntries, MaxSales)}

\* a size family of n rows with distinct sizes, one product; f gives each
\* row its source cell and its store cells
FamilyTable(product, cols, f) ==
    [columns |-> cols,
     rows |-> [k \in DOMAIN f |-> Row(product, Variants[k], f[k].src, NaN, f[k].st)]]

RowPatterns(cols, srcCells, storeCells) == [src : srcCells, st : [cols -> storeCells]]

\* cells a spreadsheet can hold besides counts: negative, blank, text
EdgeCells == {Num(-1), Num(0), Num(MaxStoreQty), NaN, <<"placeholder", 0>>}

StaticConfig(excluded) == Config(STORE_COLS, excluded, DEFAULT_BALANCE_THRESHOLD, <<>>)

\* (1) families of 1, 3 and 4 sizes over two store columns, static priority
InitDistFamily ==
    \E n \in {1, MIN_PRODUCT_SIZES_FOR_RULE - 1, MIN_PRODUCT_SIZES_FOR_RULE} :
      \E f \in [1..n -> RowPatterns({S125007, S125004}, {Num(0), Num(MaxSource)}, {Num(0), Num(MaxStoreQty)})] :
        /\ df = FamilyTable(ProductA, {S125007, S125004}, f)
        /\ config = StaticConfig({})
        /\ sales_data = NoSales
        /\ source = "stock"

\* (2) one row or four equal rows over all three stores, with a sales index
\*     and an excluded store
InitDistSales ==
    \E p \in {ShortsC3, ShortsC9, ProductA}, n \in {1, MIN_PRODUCT_SIZES_FOR_RULE} :
      \E r \in RowPatterns(Range(STORE_COLS), {Num(1), Num(MaxSource)}, {Num(0), Num(MaxStoreQty)}) :
        \E ex \in {{}, {S125004}}, sd \in SalesOptions :
          /\ df = FamilyTable(p, Range(STORE_COLS), [k \in 1..n |-> r])
          /\ config = StaticConfig(ex)
          /\ sales_data = sd
          /\ source = "stock"

\* (3) one row with edge cells, from either source column
InitDistEdge ==
    \E c \in {Num(-1), Num(0), Num(1), Num(MaxSource), <<"text", 0>>} :
      \E st \in [Range(STORE_COLS) -> EdgeCells], src \in {"stock", "photo"} :
        /\ df = [columns |-> Range(STORE_COLS), rows |-> <<Row(ProductA, "S", c, c, st)>>]
        /\ config = StaticConfig({})
        /\ sales_data = NoSales
        /\ source = src

InitDist ==
    /\ \/ InitDistFamily
       \/ InitDistSales
       \/ InitDistEdge
    /\ DistStart
    /\ engine = "distributor"
    /\ returned = <<>>
    /\ NothingReturnedYet
    /\ row_i = 1
    /\ working_inventory = <<>>
    /\ partner_transfer_decisions = <<>>

NextDist ==
    \/ DistBeginProduct
    \/ DistExcludedStore
    \/ DistMinSizesSkip
    \/ DistMinSizesTransfer
    \/ DistNormal
    \/ DistFinalize

SpecDist == InitDist /\ [][NextDist]_vars

(***************************************************************************)
(* Inputs of an InventoryBalancer pass                                     *)
(***************************************************************************)
MaxExcess == 2

Thresholds == {1, DEFAULT_BALANCE_THRESHOLD}
PairOptions == {STORE_BALANCE_PAIRS, <<>>}

\* size labels of a four-row product: all distinct, or with repeated labels
VariantSeqs == {Variants, <<"S", "S", "S", "M">>, <<"S", "S", "M", "L">>}

BalRowsOf(products, variants, f) ==
    [k \in DOMAIN f |-> Row(products[k], variants[k], NaN, NaN, f[k])]

SalesOptionsBal ==
    {NoSales} \cup {Sales(<<"C3">>, ss) :
                      ss \in SeqsUpTo({StoreSales(125005, 1), StoreSales(125004, 1)}, MaxSales)}

\* (1) a product of four rows over the two stores of a pair
InitBalFamily ==
    \E cols \in {{S125004, S125005}, {S125008, S129877}}, vs \in VariantSeqs, pairs \in PairOptions :
      \E f \in [1..MIN_PRODUCT_SIZES_FOR_RULE ->
                  [cols -> {Num(0), Num(DEFAULT_BALANCE_THRESHOLD + MaxExcess)}]] :
        /\ df = [columns |-> cols,
                 rows |-> BalRowsOf([k \in DOMAIN f |-> ProductA], vs, f)]
        /\ config = Config(ALL_STORES, {}, DEFAULT_BALANCE_THRESHOLD, pairs)
        /\ sales_data = NoSales

\* (2) one row over a pair and an unpaired store, with thresholds, an
\*     excluded store and a sales index
InitBalRow ==
    \E thr \in Thresholds, pairs \in PairOptions, sd \in SalesOptionsBal :
      \E ex \in {{}, {S125004}, {S125007}} :
        \E st \in [Range(STORE_COLS) -> {Num(0), Num(1), Num(thr + 1), Num(thr + MaxExcess)}] :
          /\ df = [columns |-> Range(STORE_COLS),
                   rows |-> <<Row(ShortsC3, "S", NaN, NaN, st)>>]
          /\ config = Config(ALL_STORES, ex, thr, pairs)
          /\ sales_data = sd

\* (3) two rows of one or two products, with equal, distinct or missing sizes
InitBalTwoRows ==
    \E ps \in {<<ProductA, ProductA>>, <<ProductA, ShortsC3>>} :
      \E vs \in {<<"S", "S">>, <<"S", "M">>, <<"nan", "nan">>} :
        \E f \in [1..2 -> [{S125004, S125005} ->
                              {Num(0), Num(DEFAULT_BALANCE_THRESHOLD + 1)}]] :
          /\ df = [columns |-> {S125004, S125005}, rows |-> BalRowsOf(ps, vs, f)]
          /\ config = Config(ALL_STORES, {}, DEFAULT_BALANCE_THRESHOLD, STORE_BALANCE_PAIRS)
          /\ sales_data = NoSales

\* (4) one row with edge cells
InitBalEdge ==
    \E pairs \in PairOptions :
      \E st \in [{S125004, S125005} ->
                    {Num(-1), NaN, <<"text", 0>>, Num(DEFAULT_BALANCE_THRESHOLD + 1)}] :
        /\ df = [columns |-> {S125004, S125005},
                 rows |-> <<Row(ProductA, "S", NaN, NaN, st)>>]
        /\ config = Config(ALL_STORES, {}, DEFAULT_BALANCE_THRESHOLD, pairs)
        /\ sales_data = NoSales

InitBal ==
    /\ \/ InitBalFamily
       \/ InitBalRow
       \/ InitBalTwoRows
       \/ InitBalEdge
    /\ source = "stock"
    /\ BalStart
    /\ engine = "balancer"
    /\ returned = <<>>
    /\ NothingReturnedYet
    /\ prod_i = 1
    /\ store_i = 1
    /\ full_priority = <<>>
    /\ remaining_stock = <<>>
    /\ previews_dict = <<>>
    /\ skipped_rows_reasons = <<>>
    /\ skipped_stores_per_row = <<>>
    /\ min_sizes_skipped_rows = {}
    /\ products_under_4_sizes = {}
    /\ products_using_fallback = {}

NextBal ==
    \/ BalRowNoExcess
    \/ BalRowSenders

SpecBal == InitBal /\ [][NextBal]_vars

\* two rows of one size or two, with two stores paired with the same
\* third store
InitBalShared ==
    \E vs \in {<<"S", "S">>, <<"S", "M">>} :
      \E f \in [1..2 -> [Range(STORE_COLS) ->
                            {Num(0), Num(DEFAULT_BALANCE_THRESHOLD + MaxExcess)}]] :
        /\ df = [columns |-> Range(STORE_COLS),
                 rows |-> BalRowsOf(<<ProductA, ProductA>>, vs, f)]
        /\ config = Config(ALL_STORES, {}, DEFAULT_BALANCE_THRESHOLD,
                           << <<"125004", "125005">>, <<"125007", "125005">> >>)
        /\ sales_data = NoSales

\* the inputs of a balancer pass, with pairs that share a store
InitPartners ==
    /\ \/ InitBalFamily
       \/ InitBalRow
       \/ InitBalTwoRows
       \/ InitBalEdge
       \/ InitBalShared
    /\ source = "stock"
    /\ BalStart
    /\ engine = "balancer"
    /\ returned = <<>>
    /\ NothingReturnedYet
    /\ prod_i = 1
    /\ store_i = 1
    /\ full_priority = <<>>
    /\ remaining_stock = <<>>
    /\ previews_dict = <<>>
    /\ skipped_rows_reasons = <<>>
    /\ skipped_stores_per_row = <<>>
    /\ min_sizes_skipped_rows = {}
    /\ products_under_4_sizes = {}
    /\ products_using_fallback = {}

SpecPartners == InitPartners /\ [][NextBal]_vars

(***************************************************************************)
(* Either engine                                                           *)
(***************************************************************************)
InitAll == InitDist \/ InitBal

NextAll ==
    \/ DistBeginProduct
    \/ DistExcludedStore
    \/ DistMinSizesSkip
    \/ DistMinSizesTransfer
    \/ DistNormal
    \/ DistFinalize
    \/ BalRowNoExcess
    \/ BalRowSenders

SpecAll == InitAll /\ [][NextAll]_vars

(***************************************************************************)
(* execute() of either engine: the transfers of the previews grouped into  *)
(* one TransferResult per (sender, receiver).  A TransferResult is         *)
(* modelled by its sender, its receiver and the lines of its data frame,   *)
(* each line (product name, variant, quantity).                            *)
(***************************************************************************)
TransferResult(sender, receiver, data) ==
    [sender |-> sender, receiver |-> receiver, data |-> data]

\* for preview in previews: for transfer in preview.transfers: the
\* transfer with the item appended for it
RECURSIVE TransferLines(_)
TransferLines(pvs) ==
    IF pvs = <<>> THEN <<>>
    ELSE LET p == Head(pvs)
         IN [k \in DOMAIN p.transfers |->
                [transfer |-> p.transfers[k],
                 item |-> <<p.product_name, p.variant, p.transfers[k].quantity>>]]
            \o TransferLines(Tail(pvs))

\* a variant of GroupAppend that opens a group for every item
GroupPerItem(groups, key, item) == Append(groups, [key |-> key, items |-> <<item>>])

\* if key not in transfers_grouped: transfers_grouped[key] = [];
\* transfers_grouped[key].append(item) -- a dict keeps insertion order
GroupAppend(groups, key, item) ==
    IF \E g \in DOMAIN groups : groups[g].key = key
    THEN [g \in DOMAIN groups |->
            IF groups[g].key = key
            THEN [groups[g] EXCEPT !.items = Append(@, item)]
            ELSE groups[g]]
    ELSE Append(groups, [key |-> key, items |-> <<item>>])

RECURSIVE transfers_grouped(_, _)
transfers_grouped(keyed, groups) ==
    IF keyed = <<>> THEN groups
    ELSE transfers_grouped(Tail(keyed),
                           GroupAppend(groups, Head(keyed).key, Head(keyed).item))

\* distributor.py line 425: receiver.split()[0] if receiver != source_name else the pool
Dist_receiver_code(receiver, source_name) ==
    IF receiver # source_name THEN <<receiver[1]>> ELSE Pool

\* StockDistributor.execute, lines 406-450, on the list preview() returned
Dist_execute(pvs, src) ==
    LET lines == TransferLines(pvs)
        keyed == [k \in DOMAIN lines |->
                    [key |-> <<lines[k].transfer.sender, lines[k].transfer.receiver>>,
                     item |-> lines[k].item]]
        groups == transfers_grouped(keyed, <<>>)
    IN [g \in DOMAIN groups |->
          TransferResult(groups[g].key[1],
                         Dist_receiver_code(groups[g].key[2], get_source_name(src)),
                         groups[g].items)]

\* balancer.py lines 327-330: the pool, or the code of the receiving store
Bal_receiver_code(receiver) ==
    IF receiver = Pool THEN Pool ELSE <<receiver[1]>>

\* balancer.py lines 342-345: the groups whose sender is not their receiver
regular_transfers(groups) ==
    SelectSeq(groups, LAMBDA g : g.key[1] # g.key[2])

\* InventoryBalancer.execute, lines 319-374, on the list preview() returned
Bal_execute(pvs) ==
    LET lines == TransferLines(pvs)
        keyed == [k \in DOMAIN lines |->
                    [key |-> <<lines[k].transfer.sender,
                               Bal_receiver_code(lines[k].transfer.receiver)>>,
                     item |-> lines[k].item]]
        groups == regular_transfers(transfers_grouped(keyed, <<>>))
    IN [g \in DOMAIN groups |->
          TransferResult(groups[g].key[1], groups[g].key[2], groups[g].items)]

\* StockDistributor.execute: the pass has run, the results are built
DistExecute ==
    /\ pc = "done"
    /\ engine = "distributor"
    /\ results' = Dist_execute(previews, source)
    /\ pc' = "executed"
    /\ UNCHANGED <<inputs, engine, returned, distVars, balVars, previews,
                   original_file, updated, labelVars>>

\* InventoryBalancer.execute: the pass has run, the results are built
BalExecute ==
    /\ pc = "done"
    /\ engine = "balancer"
    /\ results' = Bal_execute(previews)
    /\ pc' = "executed"
    /\ UNCHANGED <<inputs, engine, returned, distVars, balVars, previews,
                   original_file, updated, labelVars>>

\* a store whose label starts with the word the pool is called by
StockOutlet == <<"Stock", "Outlet">>

\* a distributor table with such a store among its columns
InitDistOutlet ==
    \E n \in 1..2, src \in {"stock", "photo"} :
      \E f \in [1..n -> RowPatterns({S125007, StockOutlet}, {Num(0), Num(MaxSource)},
                                    {Num(0), Num(MaxStoreQty)})] :
        /\ df = [columns |-> {S125007, StockOutlet},
                 rows |-> [k \in 1..n |->
                             Row(ProductA, Variants[k], f[k].src, f[k].src, f[k].st)]]
        /\ config = Config(<<S125007, StockOutlet>>, {}, DEFAULT_BALANCE_THRESHOLD, <<>>)
        /\ sales_data = NoSales
        /\ source = src

\* a balancer table with such a store among its columns
InitBalOutlet ==
    \E n \in 1..2, pairs \in PairOptions :
      \E f \in [1..n -> [{S125004, S125005, StockOutlet} ->
                            {Num(0), Num(DEFAULT_BALANCE_THRESHOLD + MaxExcess)}]] :
        /\ df = [columns |-> {S125004, S125005, StockOutlet},
                 rows |-> BalRowsOf([k \in 1..n |-> ProductA], Variants, f)]
        /\ config = Config(<<S125004, S125005, StockOutlet>>, {},
                           DEFAULT_BALANCE_THRESHOLD, pairs)
        /\ sales_data = NoSales
        /\ source = "stock"

\* what the product name cell of a row can be: a name, NaN, the empty string
NameCells == {ProductA, ShortsC9, <<"nan">>, <<"">>}

\* a distributor table of three rows, some of them without a product name
InitDistBlank ==
    \E names \in [1..3 -> NameCells] :
      \E f \in [1..3 -> RowPatterns({S125007}, {Num(0), Num(MaxSource)},
                                    {Num(0), Num(MaxStoreQty)})] :
        /\ df = [columns |-> {S125007},
                 rows |-> [k \in 1..3 |->
                             Row(names[k], Variants[k], f[k].src, NaN, f[k].st)]]
        /\ config = StaticConfig({})
        /\ sales_data = NoSales
        /\ source = "stock"

\* a balancer table of three rows, some of them without a product name
\* (at least one row has a name: the loop over the rows is entered)
InitBalBlank ==
    \E names \in {ns \in [1..3 -> NameCells] : \E k \in 1..3 : ns[k] \in {ProductA, ShortsC9}} :
      \E f \in [1..3 -> [{S125004} -> {Num(0), Num(DEFAULT_BALANCE_THRESHOLD + MaxExcess)}]] :
        /\ df = [columns |-> {S125004}, rows |-> BalRowsOf(names, Variants, f)]
        /\ config = Config(ALL_STORES, {}, DEFAULT_BALANCE_THRESHOLD, STORE_BALANCE_PAIRS)
        /\ sales_data = NoSales
        /\ source = "stock"

InitExec ==
    \/ InitAll /\ sales_data = NoSales
    \/ /\ InitDistOutlet \/ InitDistBlank
       /\ DistStart
       /\ engine = "distributor"
       /\ returned = <<>>
       /\ NothingReturnedYet
       /\ row_i = 1
       /\ working_inventory = <<>>
       /\ partner_transfer_decisions = <<>>
    \/ /\ InitBalOutlet \/ InitBalBlank
       /\ BalStart
       /\ engine = "balancer"
       /\ returned = <<>>
       /\ NothingReturnedYet
       /\ prod_i = 1
       /\ store_i = 1
       /\ full_priority = <<>>
       /\ remaining_stock = <<>>
       /\ previews_dict = <<>>
       /\ skipped_rows_reasons = <<>>
       /\ skipped_stores_per_row = <<>>
       /\ min_sizes_skipped_rows = {}
       /\ products_under_4_sizes = {}
       /\ products_using_fallback = {}

NextExec ==
    \/ DistBeginProduct
    \/ DistExcludedStore
    \/ DistMinSizesSkip
    \/ DistMinSizesTransfer
    \/ DistNormal
    \/ DistFinalize
    \/ DistExecute
    \/ BalRowNoExcess
    \/ BalRowSenders
    \/ BalExecute

SpecExec == InitExec /\ [][NextExec]_vars

(***************************************************************************)
(* core/inventory_updater.py: the transfers of a pass written into the     *)
(* uploaded workbook.  A workbook is the table as load_workbook reads it:  *)
(* the same rows and store columns, "sources" the source columns its       *)
(* header row names, and a formula cell read as its text.  A warning is    *)
(* modelled by its kind and the Excel row it names.                        *)
(***************************************************************************)
Workbook(cols, srcs, rows) == [columns |-> cols, sources |-> srcs, rows |-> rows]

\* value if value else 0, then int(float(value)), 0 when float() rejects it
cell_int(cell) == IF cell[1] = "num" THEN cell[2] ELSE 0

\* ws.cell(row=excel_row, column=source_col_idx)
SourceCell(row, src) == IF src = "photo" THEN row.photo ELSE row.stock

WithSourceCell(row, src, cell) ==
    IF src = "photo" THEN [row EXCEPT !.photo = cell] ELSE [row EXCEPT !.stock = cell]

\* the table row an Excel row number addresses (the inverse of excel_row)
RowAt(row_index) == row_index - (header_row + 2)

\* lines 84-90: column_map.get(receiver), else the first column whose
\* label starts with the receiver's code
receiver_col(file, receiver) ==
    IF receiver \in file.columns THEN receiver
    ELSE IF \E c \in file.columns : c[1] = receiver[1]
         THEN CHOOSE c \in file.columns : c[1] = receiver[1]
         ELSE None

\* a variant of clamped that writes the difference as it is
NotClamped(new_value) == new_value

\* lines 72-77: if new_value < 0: new_value = 0
clamped(new_value) == IF new_value < 0 THEN 0 ELSE new_value

\* lines 80-103: each transfer of the row added to its receiver column
RECURSIVE ApplyReceivers(_, _, _, _)
ApplyReceivers(st, p, k, j) ==
    IF j > Len(p.transfers) THEN st
    ELSE LET transfer == p.transfers[j]
             col == receiver_col(st.file, transfer.receiver)
             next == IF col = None
                     THEN [st EXCEPT !.warnings =
                               Append(@, <<"receiver_column_not_found", p.row_index>>)]
                     ELSE [st EXCEPT !.file.rows[k].stores[col] =
                               Num(cell_int(@) + transfer.quantity)]
         IN ApplyReceivers(next, p, k, j + 1)

\* lines 55-103: one preview
ApplyPreview(st, p, src) ==
    IF p.transfers = <<>> THEN st
    ELSE LET k == RowAt(p.row_index)
             total_from_source == total_quantity(p)
             original_value == cell_int(SourceCell(st.file.rows[k], src))
             new_value == original_value - total_from_source
             warned == IF new_value < 0
                       THEN [st EXCEPT !.warnings =
                                 Append(@, <<"source_below_transfer", p.row_index>>)]
                       ELSE st
             written == [warned EXCEPT !.file.rows[k] =
                            WithSourceCell(@, src, Num(clamped(new_value)))]
         IN ApplyReceivers(written, p, k, 1)

RECURSIVE ApplyPreviews(_, _, _)
ApplyPreviews(st, pvs, src) ==
    IF pvs = <<>> THEN st
    ELSE ApplyPreviews(ApplyPreview(st, Head(pvs), src), Tail(pvs), src)

\* apply_transfers_to_inventory: (workbook, warnings)
apply_transfers_to_inventory(file, pvs, src) ==
    IF src \notin file.sources
    THEN [file |-> file, warnings |-> <<<<"source_column_not_found", 0>>>>]
    ELSE ApplyPreviews([file |-> file, warnings |-> <<>>], pvs, src)

\* StockDistributor.generate_updated_inventory: the pass has run, its
\* previews are written into the workbook
DistUpdateInventory ==
    /\ pc = "done"
    /\ engine = "distributor"
    /\ updated' = apply_transfers_to_inventory(original_file, previews, source)
    /\ pc' = "updated"
    /\ UNCHANGED <<inputs, engine, returned, distVars, balVars, previews,
                   results, original_file, labelVars>>

\* the cell openpyxl reads where the table shows the cached value of a formula
FormulaCell == <<"text", 0>>

\* the workbook a table was read from; the rows in "formulas" hold a
\* formula in their source cell
WorkbookOf(d, src, srcs, formulas) ==
    Workbook(d.columns, srcs,
             [k \in DOMAIN d.rows |->
                 IF k \in formulas THEN WithSourceCell(d.rows[k], src, FormulaCell)
                 ELSE d.rows[k]])

\* a product of one or four sizes over two stores, the second store with
\* the same cell on every row; the workbook has no photo column (the table
\* then reads NaN there), and a formula in no, the first or every source cell
InitUpdate ==
    /\ \E n \in {1, MIN_PRODUCT_SIZES_FOR_RULE}, c4 \in {Num(0), Num(MaxStoreQty)} :
         \E f \in [1..n -> [src : {Num(0), Num(MaxSource)},
                            c7 : {Num(0), Num(MaxStoreQty)}]] :
           \E src \in {"stock", "photo"}, ex \in {{}, {S125004}} :
             \E formulas \in {{}, {1}, 1..n} :
               /\ df = FamilyTable(ProductA, {S125007, S125004},
                                   [k \in 1..n |->
                                       [src |-> f[k].src,
                                        st |-> (S125007 :> f[k].c7) @@ (S125004 :> c4)]])
               /\ config = StaticConfig(ex)
               /\ sales_data = NoSales
               /\ source = src
               /\ original_file = WorkbookOf(df, src, {"stock"}, formulas)
    /\ DistStart
    /\ engine = "distributor"
    /\ returned = <<>>
    /\ results = <<>>
    /\ updated = None
    /\ cell_str = None
    /\ label_id = None
    /\ row_i = 1
    /\ working_inventory = <<>>
    /\ partner_transfer_decisions = <<>>

NextUpdate ==
    \/ DistBeginProduct
    \/ DistExcludedStore
    \/ DistMinSizesSkip
    \/ DistMinSizesTransfer
    \/ DistNormal
    \/ DistFinalize
    \/ DistUpdateInventory

SpecUpdate == InitUpdate /\ [][NextUpdate]_vars

(***************************************************************************)
(* core/models.py, core/sales_parser.py: store labels read character by    *)
(* character.  Here a label is the tuple of its characters, so that        *)
(* "10001 A" is <<"1", "0", "0", "0", "1", " ", "A">>, and the result of   *)
(* extract_store_id is <<n>> for the integer n and None otherwise.         *)
(***************************************************************************)
IsDigit(c) == c \in {"0", "1", "2", "3", "4", "5", "6", "7", "8", "9"}

IsSpace(c) == c \in {" ", "\t"}

DigitValue(c) ==
    CASE c = "0" -> 0 [] c = "1" -> 1 [] c = "2" -> 2 [] c = "3" -> 3 [] c = "4" -> 4
      [] c = "5" -> 5 [] c = "6" -> 6 [] c = "7" -> 7 [] c = "8" -> 8 [] c = "9" -> 9

\* int() of a string of digits
RECURSIVE IntOfDigits(_)
IntOfDigits(ds) ==
    IF ds = <<>> THEN 0
    ELSE 10 * IntOfDigits(SubSeq(ds, 1, Len(ds) - 1)) + DigitValue(ds[Len(ds)])

\* a variant of zero_prefixes for a pattern without the leading 0*
NoZeroPrefix(label) == {0}

\* the prefixes 0* can consume: z characters, all of them "0"
zero_prefixes(label) == {z \in 0..Len(label) : \A k \in 1..z : label[k] = "0"}

\* the ways r"^0*(\d{5,7})\s+\S" matches at the start of the label:
\* <<z, m>> for z zeros, a group of m digits, whitespace and a further
\* character that is not whitespace
pattern_matches(label) ==
    {zm \in zero_prefixes(label) \X (5..7) :
        /\ zm[1] + zm[2] + 2 <= Len(label)
        /\ \A k \in (zm[1] + 1)..(zm[1] + zm[2]) : IsDigit(label[k])
        /\ \E w \in 1..(Len(label) - zm[1] - zm[2] - 1) :
              /\ \A k \in (zm[1] + zm[2] + 1)..(zm[1] + zm[2] + w) : IsSpace(label[k])
              /\ ~IsSpace(label[zm[1] + zm[2] + w + 1])}

\* match.group(1): 0* and \d{5,7} are greedy, so the match found first has
\* the most zeros and then the most digits
match_group(label) ==
    LET ms == pattern_matches(label)
        first == CHOOSE zm \in ms :
                    \A other \in ms : \/ other[1] < zm[1]
                                      \/ other[1] = zm[1] /\ other[2] <= zm[2]
    IN SubSeq(label, first[1] + 1, first[1] + first[2])

\* extract_store_id, models.py lines 9-26
extract_store_id_of_label(label) ==
    IF label = <<>> THEN None
    ELSE IF pattern_matches(label) = {} THEN None
    ELSE <<IntOfDigits(match_group(label))>>

\* build_store_id_map, models.py lines 29-44: "if store_id" drops None and 0
build_store_id_map_of_labels(labels) ==
    LET kept == {k \in DOMAIN labels :
                    /\ extract_store_id_of_label(labels[k]) # None
                    /\ extract_store_id_of_label(labels[k]) # <<0>>}
        ids == {extract_store_id_of_label(labels[k])[1] : k \in kept}
    IN [id \in ids |->
          labels[CHOOSE k \in kept :
                    /\ extract_store_id_of_label(labels[k]) = <<id>>
                    /\ \A j \in kept : j > k => extract_store_id_of_label(labels[j]) # <<id>>]]

\* sales_parser.py line 135: store_id = extract_store_id(cell_str)
ParseStoreRow ==
    /\ pc = "label"
    /\ label_id' = extract_store_id_of_label(cell_str)
    /\ pc' = "parsed"
    /\ UNCHANGED <<inputs, engine, returned, distVars, balVars, previews, outVars, cell_str>>

MaxZeros == 2
MaxDigits == 8

Zeros(z) == [k \in 1..z |-> "0"]

\* the store labels of the configuration, spelled out: a 5-digit and a
\* 7-digit code, and a label that is no store
ConfiguredLabels ==
    << <<"1", "0", "0", "0", "1", " ", "A">>,
       <<"1", "0", "0", "0", "0", "0", "1", " ", "B">>,
       <<"1", "1", "0", " ", "C">> >>

\* labels of a sales file: up to MaxZeros zeros, 4 to MaxDigits digits,
\* whitespace or none, a name or none, after nothing or a letter
SalesLabels ==
    {lead \o Zeros(z) \o ds \o ws \o name :
        lead \in {<<>>, <<"A">>},
        z \in 0..MaxZeros,
        ds \in UNION {[1..n -> {"0", "1"}] : n \in 4..MaxDigits},
        ws \in {<<>>, <<" ">>, <<" ", "\t">>},
        name \in {<<>>, <<"A">>}}

InitLabels ==
    /\ cell_str \in SalesLabels
    /\ label_id = None
    /\ pc = "label"
    /\ engine = "sales_parser"
    /\ df = [columns |-> {}, rows |-> <<>>]
    /\ config = Config(ConfiguredLabels, {}, DEFAULT_BALANCE_THRESHOLD, <<>>)
    /\ sales_data = NoSales
    /\ source = "stock"
    /\ returned = <<>>
    /\ results = <<>>
    /\ original_file = None
    /\ updated = None
    /\ previews = <<>>
    /\ row_i = 1
    /\ working_inventory = <<>>
    /\ partner_transfer_decisions = <<>>
    /\ prod_i = 1
    /\ store_i = 1
    /\ full_priority = <<>>
    /\ remaining_stock = <<>>
    /\ previews_dict = <<>>
    /\ skipped_rows_reasons = <<>>
    /\ skipped_stores_per_row = <<>>
    /\ min_sizes_skipped_rows = {}
    /\ products_under_4_sizes = {}
    /\ products_using_fallback = {}

NextLabels == ParseStoreRow

SpecLabels == InitLabels /\ [][NextLabels]_vars

(***************************************************************************)
(* A caller that calls preview() again on the same engine object, table    *)
(* and source once a pass has returned.  Everything a pass works on is a   *)
(* local of preview(), built anew at the top of the call.                  *)
(***************************************************************************)
MaxCalls == 2

\* a variant of InitialRemainingStock that keeps the dict of the last pass
KeptRemainingStock(d, src) == remaining_stock

\* distributor.py lines 214-217: remaining_stock, built from the table
InitialRemainingStock(d, src) == [i \in Range(df_filtered(d)) |-> SourceQty(d, src, i)]

\* StockDistributor.preview called again: lines 197-231
DistCallAgain ==
    /\ pc = "done"
    /\ engine = "distributor"
    /\ Len(returned) + 1 < MaxCalls
    /\ returned' = Append(returned, previews)
    /\ pc' = "dist_product"
    /\ prod_i' = 1
    /\ store_i' = 1
    /\ full_priority' = <<>>
    /\ remaining_stock' = InitialRemainingStock(df, source)
    /\ previews_dict' = <<>>
    /\ skipped_rows_reasons' = <<>>
    /\ skipped_stores_per_row' = <<>>
    /\ min_sizes_skipped_rows' = {}
    /\ products_under_4_sizes' = {}
    /\ products_using_fallback' = {}
    /\ previews' = <<>>
    /\ UNCHANGED <<inputs, engine, balVars, outVars, labelVars>>

\* InventoryBalancer.preview called again: lines 163-191
BalCallAgain ==
    /\ pc = "done"
    /\ engine = "balancer"
    /\ Len(returned) + 1 < MaxCalls
    /\ returned' = Append(returned, previews)
    /\ pc' = "bal_rows"
    /\ row_i' = 1
    /\ working_inventory' = InitialWorkingInventory(df, config)
    /\ partner_transfer_decisions' = <<>>
    /\ previews' = <<>>
    /\ UNCHANGED <<inputs, engine, distVars, outVars, labelVars>>

NextTwice ==
    \/ DistBeginProduct
    \/ DistExcludedStore
    \/ DistMinSizesSkip
    \/ DistMinSizesTransfer
    \/ DistNormal
    \/ DistFinalize
    \/ DistCallAgain
    \/ BalRowNoExcess
    \/ BalRowSenders
    \/ BalCallAgain

\* the inputs of either engine, with sales indexes of at most one store row
InitTwice ==
    /\ InitAll
    /\ \A c \in DOMAIN sales_data.products : Len(sales_data.products[c]) <= 1

SpecTwice == InitTwice /\ [][NextTwice]_vars

(***************************************************************************)
(* Properties: vocabulary                                                  *)
(***************************************************************************)
\* s.split()[0] of a store name
CodeOf(store) == <<store[1]>>

\* the configured stores that are neither excluded nor missing from the table
ActiveInTable(cfg, d) ==
    {s \in Range(cfg.store_priority) : s \notin cfg.excluded_stores /\ s \in d.columns}

\* the rows carrying one product name
RowsOfProduct(d, product) == {i \in Range(df_filtered(d)) : d.rows[i].product = product}

ProductNames(d) == {d.rows[i].product : i \in Range(df_filtered(d))}

\* the number of distinct sizes of the product on which the store holds stock
SizesHeld(d, product, store) ==
    Cardinality({VariantStr(d.rows[i].variant) :
                    i \in {j \in RowsOfProduct(d, product) : StoreQty(d, j, store) > 0}})

\* the number of transfers to the store in the preview of row i (0 when the
\* row has no preview yet)
UnitsTo(pd, i, store) ==
    LET ks == {k \in DOMAIN pd : pd[k].original_idx = i}
    IN IF ks = {} THEN 0
       ELSE LET p == pd[CHOOSE k \in ks : TRUE]
            IN Cardinality({t \in DOMAIN p.transfers : p.transfers[t].receiver = store})

\* the rows of the product whose preview holds a transfer to the store
RowsReceiving(pd, d, product, store) ==
    {i \in RowsOfProduct(d, product) : UnitsTo(pd, i, store) > 0}

\* the minimum sizes rule is in force for the product and the store
RuleInForce(d, product, store) ==
    /\ Cardinality(RowsOfProduct(d, product)) >= MIN_PRODUCT_SIZES_FOR_RULE
    /\ SizesHeld(d, product, store) <= 1

(***************************************************************************)
(* Properties of StockDistributor.preview                                  *)
(***************************************************************************)
\* C1: in every preview the distributor returns, the quantities of the
\* row's transfers sum to at most the row's source quantity, the selected
\* source cell as get_stock_value reads it.
C1_TransfersWithinSource ==
    pc = "done" =>
        \A k \in DOMAIN previews :
            total_quantity(previews[k]) <= SourceQty(df, source, previews[k].original_idx)

\* C3: for a product of at least four rows and an active store holding
\* stock on at most one size of it, the rows of the product that carry a
\* transfer to the store are none or at least three, at every point of the
\* pass; and the store's turn gives it either nothing or exactly one unit on
\* every row where it holds 0 and the source has stock left.
C3_RowsReceivedNoneOrThree ==
    \A product \in ProductNames(df), store \in ActiveInTable(config, df) :
        RuleInForce(df, product, store) =>
            Cardinality(RowsReceiving(previews_dict, df, product, store)) \notin {1, 2}

C3_TurnGivesAllOrNothing ==
    (pc = "dist_store" /\ CurStore \notin config.excluded_stores
       /\ RuleInForce(df, CurProduct, CurStore))
    => LET gained == {i \in RowsOfProduct(df, CurProduct) :
                         UnitsTo(previews_dict', i, CurStore) > UnitsTo(previews_dict, i, CurStore)}
           qualifying == {i \in RowsOfProduct(df, CurProduct) :
                             StoreQty(df, i, CurStore) = 0 /\ remaining_stock[i] > 0}
       IN /\ gained = {} \/ (gained = qualifying /\ Cardinality(gained) >= MIN_SIZES_TO_ADD)
          /\ \A i \in gained :
                /\ UnitsTo(previews_dict', i, CurStore) = UnitsTo(previews_dict, i, CurStore) + 1
                /\ remaining_stock'[i] = remaining_stock[i] - 1

C5_ReceiverHoldsZero ==
    pc = "done" =>
        \A k \in DOMAIN previews :
            \A t \in DOMAIN previews[k].transfers :
                StoreQty(df, previews[k].original_idx, previews[k].transfers[t].receiver) = 0

\* C6: every transfer the distributor returns has quantity 1, and no
\* preview holds two transfers to the same receiver.
C6_OneUnitPerStore ==
    pc = "done" =>
        \A k \in DOMAIN previews :
            \A t, u \in DOMAIN previews[k].transfers :
                /\ previews[k].transfers[t].quantity = 1
                /\ t # u => previews[k].transfers[t].receiver # previews[k].transfers[u].receiver

(***************************************************************************)
(* Properties of InventoryBalancer.preview                                 *)
(***************************************************************************)
\* the transfers of a preview sent by the store with this code
TransfersFrom(p, code) == SelectSeq(p.transfers, LAMBDA t : t.sender = code)

Quantities(ts) == SumSeq([k \in DOMAIN ts |-> ts[k].quantity])

\* what the store holds above the threshold on row i
Excess(d, cfg, i, store) ==
    IF StoreQty(d, i, store) > cfg.balance_threshold
    THEN StoreQty(d, i, store) - cfg.balance_threshold
    ELSE 0

\* the codes the configuration pairs with this code, in either position
PairedCodes(cfg, code) ==
    {<<cfg.store_balance_pairs[k][2]>> :
        k \in {j \in DOMAIN cfg.store_balance_pairs : cfg.store_balance_pairs[j][1] = code[1]}}
    \cup
    {<<cfg.store_balance_pairs[k][1]>> :
        k \in {j \in DOMAIN cfg.store_balance_pairs : cfg.store_balance_pairs[j][2] = code[1]}}

\* <<X, Y>>: X and Y are active stores of the table and configured as a pair
Directions(cfg, d) ==
    {xy \in ActiveInTable(cfg, d) \X ActiveInTable(cfg, d) :
        CodeOf(xy[2]) \in PairedCodes(cfg, CodeOf(xy[1]))}

\* C2: in every preview of the balancer, each active store above the
\* threshold is the sender of transfers summing to its quantity minus the
\* threshold, a store at or below the threshold sends nothing, nobody else
\* sends, and a row without surplus has no transfers.
C2_ExcessFullyMoved ==
    \A k \in DOMAIN previews :
        LET p == previews[k]
            i == p.original_idx
            active == ActiveInTable(config, df)
        IN /\ \A s \in active :
                 Quantities(TransfersFrom(p, CodeOf(s))) = Excess(df, config, i, s)
           /\ \A s \in active :
                 Excess(df, config, i, s) = 0 => TransfersFrom(p, CodeOf(s)) = <<>>
           /\ \A t \in DOMAIN p.transfers : \E s \in active : p.transfers[t].sender = CodeOf(s)
           /\ (\A s \in active : Excess(df, config, i, s) = 0) => p.transfers = <<>>

\* C2 witness: a returned row where one store sends a unit to its partner
\* and the rest of a surplus of two or more to the pool, while another
\* store holds stock below the threshold and sends nothing
C2_Witness ==
    /\ pc = "done"
    /\ \E k \in DOMAIN previews :
          \E s, t \in ActiveInTable(config, df) :
             /\ Excess(df, config, previews[k].original_idx, s) >= MaxExcess
             /\ Len(TransfersFrom(previews[k], CodeOf(s))) = 2
             /\ StoreQty(df, previews[k].original_idx, t) > 0
             /\ Excess(df, config, previews[k].original_idx, t) = 0

\* C4: for a product of at least four rows and a sender whose partner holds
\* stock on at most one size of it, the rows on which the partner receives a
\* unit from the sender are none, or all the rows where the sender is above
\* the threshold and the partner holds 0; they are none when fewer than three
\* such rows exist, and they are never one or two.
C4_PartnerAllOrNothing ==
    pc = "done" =>
        \A xy \in Directions(config, df), product \in ProductNames(df) :
            RuleInForce(df, product, xy[2]) =>
                LET received == RowsReceiving(previews, df, product, xy[2])
                    offered == {i \in RowsOfProduct(df, product) :
                                   /\ StoreQty(df, i, xy[1]) > config.balance_threshold
                                   /\ StoreQty(df, i, xy[2]) = 0}
                IN /\ received = {} \/ received = offered
                   /\ Cardinality(offered) < MIN_SIZES_TO_ADD => received = {}
                   /\ Cardinality(received) \notin {1, 2}

C8_BothExcessAllToPool ==
    \A k \in DOMAIN previews :
        LET p == previews[k]
            i == p.original_idx
        IN /\ \A t \in DOMAIN p.transfers :
                 p.transfers[t].receiver # Pool => p.transfers[t].quantity = 1
           /\ \A xy \in Directions(config, df) :
                 (Excess(df, config, i, xy[1]) > 0 /\ Excess(df, config, i, xy[2]) > 0)
                 => TransfersFrom(p, CodeOf(xy[1])) =
                        <<Transfer(CodeOf(xy[1]), Pool, Excess(df, config, i, xy[1]))>>

\* the rows carrying the product and size of row i
SameSizeRows(d, i) ==
    {j \in RowsOfProduct(d, d.rows[i].product) :
        VariantStr(d.rows[j].variant) = VariantStr(d.rows[i].variant)}

\* the minimum sizes policy for sender x and receiver y, as the rule is
\* worded: in force it wants three rows where x is above the threshold and y
\* holds 0
PolicyPermits(d, cfg, product, x, y) ==
    RuleInForce(d, product, y) =>
        Cardinality({j \in RowsOfProduct(d, product) :
                        StoreQty(d, j, x) > cfg.balance_threshold /\ StoreQty(d, j, y) = 0})
            >= MIN_SIZES_TO_ADD

\* the table, the exclusion list and a transfer with the stores a and b
\* exchanged
Swap(s, a, b) == IF s = a THEN b ELSE IF s = b THEN a ELSE s

MirrorTable(d, a, b) ==
    [columns |-> {Swap(c, a, b) : c \in d.columns},
     rows |-> [i \in DOMAIN d.rows |->
                 [d.rows[i] EXCEPT !.stores =
                     [c \in {Swap(x, a, b) : x \in d.columns} |->
                         d.rows[i].stores[Swap(c, a, b)]]]]]

MirrorConfig(cfg, a, b) ==
    [cfg EXCEPT !.excluded_stores = {Swap(e, a, b) : e \in cfg.excluded_stores}]

MirrorTransfer(t, a, b) ==
    Transfer(Swap(t.sender, CodeOf(a), CodeOf(b)), Swap(t.receiver, a, b), t.quantity)

\* C10, first half: for every configured pair and either direction <<x, y>>,
\* on a row where x is above the threshold, y holds 0 of that product and
\* size, no earlier row of that product and size had x above the threshold,
\* and the minimum sizes policy permits, x's first transfer is one unit to y
\* and the rest of its surplus follows to the pool.
C10_PartnerBeforePool ==
    \A k \in DOMAIN previews :
        LET p == previews[k]
            i == p.original_idx
        IN \A xy \in Directions(config, df) :
              (/\ Excess(df, config, i, xy[1]) > 0
               /\ \A j \in SameSizeRows(df, i) : StoreQty(df, j, xy[2]) = 0
               /\ \A j \in SameSizeRows(df, i) : j < i => Excess(df, config, j, xy[1]) = 0
               /\ PolicyPermits(df, config, df.rows[i].product, xy[1], xy[2]))
              => LET ts == TransfersFrom(p, CodeOf(xy[1]))
                 IN /\ ts # <<>>
                    /\ ts[1] = Transfer(CodeOf(xy[1]), xy[2], 1)
                    /\ Tail(ts) = IF Excess(df, config, i, xy[1]) > 1
                                  THEN <<Transfer(CodeOf(xy[1]), Pool,
                                                  Excess(df, config, i, xy[1]) - 1)>>
                                  ELSE <<>>

\* C10, second half: exchanging the two stores of a pair in the table and in
\* the exclusion list exchanges them in the returned transfers, row by row.
C10_MirrorImage ==
    pc = "done" =>
        \A xy \in Directions(config, df) :
            LET other == Bal_preview(MirrorTable(df, xy[1], xy[2]),
                                     MirrorConfig(config, xy[1], xy[2]), sales_data)
            IN /\ Len(other) = Len(previews)
               /\ \A k \in DOMAIN previews :
                     /\ Len(other[k].transfers) = Len(previews[k].transfers)
                     /\ Range(other[k].transfers) =
                           {MirrorTransfer(previews[k].transfers[t], xy[1], xy[2]) :
                               t \in DOMAIN previews[k].transfers}

C9_ExcludedNeverInvolved ==
    \A pd \in {previews, previews_dict} :
        \A k \in DOMAIN pd :
            \A t \in DOMAIN pd[k].transfers :
                /\ pd[k].transfers[t].receiver \notin config.excluded_stores
                /\ \A e \in config.excluded_stores : pd[k].transfers[t].sender # CodeOf(e)

\* C9 witness: a returned balancer row on which an excluded store of the
\* table stands above the threshold while another store sends its surplus
C9_Witness ==
    /\ pc = "done"
    /\ \E k \in DOMAIN previews :
          /\ \E e \in config.excluded_stores :
                e \in df.columns /\ Excess(df, config, previews[k].original_idx, e) > 0
          /\ \E s \in ActiveInTable(config, df) :
                TransfersFrom(previews[k], CodeOf(s)) # <<>>

(***************************************************************************)
(* Properties of repeated calls                                            *)
(***************************************************************************)
\* C11: a second call of preview on the same table, config and sales index
\* returns a list equal to the first; no step of a pass changes the table,
\* the config, the sales index or the source; and every call starts from
\* the locals of a first call, so that nothing of a pass survives.
C11_SameResult ==
    pc = "done" => \A k \in DOMAIN returned : returned[k] = previews

C11_InputsUntouched == inputs' = inputs

C11_FreshLocals ==
    (pc = "done" /\ pc' # "done") =>
        \/ engine = "distributor" /\ DistStart'
        \/ engine = "balancer" /\ BalStart'

ActiveLists(cfg, sd, d, product) ==
    {Dist_get_product_priority(cfg, sd, product, available_stores(cfg, d))[1],
     Bal_get_product_priority(cfg, sd, product, available_stores(cfg, d))[1]}

\* the number of positions of the list holding the store
Occurrences(list, store) == Cardinality({k \in DOMAIN list : list[k] = store})

\* C12: for every product of a pass that has returned and the sales index
\* of the pass, the active priority list of either engine holds every
\* non-excluded store of the table exactly once and holds no excluded store.
C12_ActivePriorityComplete ==
    pc = "done" =>
        \A product \in ProductNames(df) :
            \A ap \in ActiveLists(config, sales_data, df, product) :
                /\ \A s \in ActiveInTable(config, df) : Occurrences(ap, s) = 1
                /\ \A k \in DOMAIN ap : ap[k] \notin config.excluded_stores

\* the rows of the sales index under the product's code, <<>> when the
\* name carries no code or the index has no entry for it
SalesRows(sd, product) ==
    IF sd.loaded /\ Len(product) >= 2 /\ Tail(product) \in DOMAIN sd.products
    THEN sd.products[Tail(product)]
    ELSE <<>>

\* the units sold the sales rows state for the store, matched by its code
Sold(sd, product, store) ==
    {SalesRows(sd, product)[k].quantity :
        k \in {j \in DOMAIN SalesRows(sd, product) :
                  SalesRows(sd, product)[j].store_id = extract_store_id(store)}}

Ranked(sd, product, store) == Sold(sd, product, store) # {}

\* the product is found: some sales row of its code names a configured store
FoundInSales(cfg, sd, product) ==
    \E s \in Range(cfg.store_priority) : Ranked(sd, product, s)

StaticPos(cfg, store) == IndexOf(cfg.store_priority, store)

\* C13: for a product found in the sales index, in the active priority list
\* of either engine the ranked stores come first, a store stands before
\* another ranked store when it sold more, or as much and is earlier in the
\* static list; the active stores of the table the ranking does not name
\* follow, all of them, in static order; and every ranked active store of
\* the table is in the list.
C13_SalesOrderThenStatic ==
    pc = "done" =>
        \A product \in ProductNames(df) :
            FoundInSales(config, sales_data, product) =>
                \A ap \in ActiveLists(config, sales_data, df, product) :
                    /\ \A i, j \in DOMAIN ap :
                          (i < j /\ ap[i] # ap[j]) =>
                             LET ri == Ranked(sales_data, product, ap[i])
                                 rj == Ranked(sales_data, product, ap[j])
                             IN /\ ri \/ ~rj
                                /\ (ri /\ rj) =>
                                      \E qi \in Sold(sales_data, product, ap[i]),
                                         qj \in Sold(sales_data, product, ap[j]) :
                                         \/ qi > qj
                                         \/ qi = qj /\ StaticPos(config, ap[i]) < StaticPos(config, ap[j])
                                /\ (~ri /\ ~rj) =>
                                      StaticPos(config, ap[i]) < StaticPos(config, ap[j])
                    /\ ActiveInTable(config, df) \subseteq Range(ap)

\* C13 witness: a returned pass whose product is found with two stores that
\* sold the same, named by the sales rows against the static order, and an
\* active store the ranking does not name, which stands last in the list
C13_Witness ==
    /\ pc = "done"
    /\ \E product \in ProductNames(df) :
          LET rows == SalesRows(sales_data, product)
              ap == Dist_get_product_priority(config, sales_data, product,
                                              available_stores(config, df))[1]
          IN /\ Len(rows) = 2
             /\ rows[1].quantity = rows[2].quantity
             /\ rows[1].store_id # rows[2].store_id
             /\ Len(ap) = 3
             /\ extract_store_id(ap[1]) = rows[2].store_id
             /\ extract_store_id(ap[2]) = rows[1].store_id
             /\ ~Ranked(sales_data, product, ap[3])

\* the configured order of the stores that are active and in the table
StaticActiveOrder(cfg, d) ==
    SelectSeq(cfg.store_priority, LAMBDA s : s \in ActiveInTable(cfg, d))

\* the previews of the list filed under row i
PreviewsOfRow(pd, i) == {k \in DOMAIN pd : pd[k].original_idx = i}

Qualifying(d, src, product, store) ==
    {i \in RowsOfProduct(d, product) : SourceQty(d, src, i) > 0 /\ StoreQty(d, i, store) = 0}

\* the preview of row i holds a skip record of the store with the reason
HasSkipRecord(pd, i, store, reason) ==
    \E k \in PreviewsOfRow(pd, i) : \E n \in DOMAIN pd[k].skipped_stores :
        /\ pd[k].skipped_stores[n].store_name = store
        /\ pd[k].skipped_stores[n].reason = reason

\* the preview of row i carries the shortfall reason, with a count below
\* the minimum
HasShortfallReason(pd, i) ==
    \E k \in PreviewsOfRow(pd, i) :
        /\ pd[k].skip_reason # None
        /\ pd[k].skip_reason[1] = "min_sizes_not_met"
        /\ pd[k].skip_reason[2] < MIN_SIZES_TO_ADD

\* C15: in the list the distributor returns, for a product and an active
\* store under the minimum sizes rule with fewer than three rows the source
\* can serve and the store lacks, the store receives nothing of the product
\* and every row of the product on which the store holds 0 carries a
\* "min_sizes" skip record of the store and the shortfall reason.
C15_VetoIsRecorded ==
    pc = "done" =>
        \A product \in ProductNames(df), store \in ActiveInTable(config, df) :
            (/\ RuleInForce(df, product, store)
             /\ Cardinality(Qualifying(df, source, product, store)) < MIN_SIZES_TO_ADD)
            => /\ RowsReceiving(previews, df, product, store) = {}
               /\ \A i \in RowsOfProduct(df, product) :
                     StoreQty(df, i, store) = 0 =>
                        /\ HasSkipRecord(previews, i, store, "min_sizes")
                        /\ HasShortfallReason(previews, i)

\* C16: in the list the distributor returns, every row and every active
\* store of the table holding more than 0 on the row has a "has_stock" skip
\* record in the row's preview, with existing_qty the quantity held.
C16_HasStockRecorded ==
    pc = "done" =>
        \A k \in DOMAIN previews, store \in ActiveInTable(config, df) :
            StoreQty(df, previews[k].original_idx, store) > 0 =>
                \E n \in DOMAIN previews[k].skipped_stores :
                    previews[k].skipped_stores[n] =
                        SkippedStore(store, "has_stock",
                                     StoreQty(df, previews[k].original_idx, store))

(***************************************************************************)
(* Properties of the standard distribution                                 *)
(***************************************************************************)
\* the active stores of the table holding 0 on row i, in static order
EmptyStores(cfg, d, i) ==
    SelectSeq(StaticActiveOrder(cfg, d), LAMBDA s : StoreQty(d, i, s) = 0)

\* C17: without a sales index and for a product of fewer than four rows,
\* the preview the distributor returns for a row with source quantity q
\* holds one transfer of 1 to each of the first min(q, k) of the k active
\* stores holding 0 on the row, in static order, and no other transfer.
C17_FirstStoresGetOne ==
    (pc = "done" /\ ~sales_data.loaded) =>
        \A k \in DOMAIN previews :
            Cardinality(RowsOfProduct(df, previews[k].product_name))
                < MIN_PRODUCT_SIZES_FOR_RULE =>
                LET i == previews[k].original_idx
                    empty == EmptyStores(config, df, i)
                    q == SourceQty(df, source, i)
                    m == IF q < Len(empty) THEN q ELSE Len(empty)
                    served == {empty[j] : j \in 1..m}
                IN /\ \A t \in DOMAIN previews[k].transfers :
                         /\ previews[k].transfers[t].quantity = 1
                         /\ previews[k].transfers[t].receiver \in served
                   /\ \A s \in served : UnitsTo(previews, i, s) = 1

\* C18: at the turn of an active store for which the minimum sizes rule is
\* not in force (product of fewer than four rows, or store holding two or
\* more sizes), the store gains exactly one unit on every row of the product
\* where it holds 0 and the source has stock left, whatever the number of
\* such rows, and the row's remaining stock drops by one.
C18_TurnGivesEveryEmptyRow ==
    (pc = "dist_store" /\ CurStore \notin config.excluded_stores
       /\ ~RuleInForce(df, CurProduct, CurStore))
    => \A i \in RowsOfProduct(df, CurProduct) :
          (StoreQty(df, i, CurStore) = 0 /\ remaining_stock[i] > 0) =>
              /\ UnitsTo(previews_dict', i, CurStore) = UnitsTo(previews_dict, i, CurStore) + 1
              /\ remaining_stock'[i] = remaining_stock[i] - 1

PartnerBlocked(d, cfg, product, x, y) ==
    /\ \E i \in RowsOfProduct(d, product) : Excess(d, cfg, i, x) > 0
    /\ ~PolicyPermits(d, cfg, product, x, y)

\* the preview records the partner as skipped by the minimum sizes rule
RecordsBlockedPartner(p, y) ==
    /\ p.min_sizes_skipped
    /\ p.skip_reason # None
    /\ \E n \in DOMAIN p.skip_reason : p.skip_reason[n] = y[1]
    /\ \E n \in DOMAIN p.skipped_stores :
          /\ p.skipped_stores[n].store_name = y
          /\ p.skipped_stores[n].reason = "min_sizes"

\* the preview records nothing of the kind
RecordsNoSkip(p) ==
    /\ ~p.min_sizes_skipped
    /\ p.skip_reason = None
    /\ p.skipped_stores = <<>>

\* C19: in the list the balancer returns, for a product and a pair
\* direction <<x, y>>: when the transfer to partner y is blocked by the
\* minimum sizes rule, every row of the product that has transfers has
\* min_sizes_skipped set, a skip_reason naming y's code and a "min_sizes"
\* skip record of y; when x has surplus and the rule lets y receive, the
\* rows of the product on which y receives carry none of these.
C19_BlockedPartnerIsFlagged ==
    pc = "done" =>
        \A xy \in Directions(config, df), product \in ProductNames(df) :
            \A k \in DOMAIN previews :
                (previews[k].product_name = product /\ previews[k].transfers # <<>>) =>
                    /\ PartnerBlocked(df, config, product, xy[1], xy[2])
                          => RecordsBlockedPartner(previews[k], xy[2])
                    /\ UnitsTo(previews, previews[k].original_idx, xy[2]) > 0
                          => RecordsNoSkip(previews[k])

\* C20: in the list either engine returns, a preview has
\* uses_standard_distribution set exactly when the table holds fewer than
\* four rows of the preview's product.
C20_StandardFlagIffSmallProduct ==
    pc = "done" =>
        \A k \in DOMAIN previews :
            previews[k].uses_standard_distribution
                <=> (Cardinality(RowsOfProduct(df, previews[k].product_name))
                        < MIN_PRODUCT_SIZES_FOR_RULE)

(***************************************************************************)
(* C21: no TransferResult returned by StockDistributor.execute or          *)
(* InventoryBalancer.execute has its sender equal to its receiver,         *)
(* whatever the table and the configured store names and pairs.            *)
(***************************************************************************)
C21_NoSelfTransfer ==
    \A g \in DOMAIN results : results[g].sender # results[g].receiver

(***************************************************************************)
(* C26: execute of either engine partitions the transfers of the previews  *)
(* by (sender, receiver code): every transfer that is not a self-transfer  *)
(* is exactly one line of exactly one TransferResult, with its product,    *)
(* variant and quantity; no two TransferResults have the same (sender,     *)
(* receiver); the quantities of all results add up to the quantities of    *)
(* all previews.                                                           *)
(***************************************************************************)
\* the (sender, receiver code) a transfer is filed under
BatchKey(t) == <<t.sender, IF t.receiver = Pool THEN Pool ELSE <<t.receiver[1]>>>>

\* the lines (product, variant, quantity) of the previews' transfers filed
\* under a key, in preview order
LinesUnder(pvs, key) ==
    LET all == TransferLines(pvs)
        mine == SelectSeq(all, LAMBDA l : BatchKey(l.transfer) = key)
    IN [k \in DOMAIN mine |-> mine[k].item]

BatchKeys(pvs) ==
    LET all == TransferLines(pvs)
    IN {BatchKey(all[k].transfer) : k \in DOMAIN all}

ResultsOf(key) ==
    {g \in DOMAIN results : <<results[g].sender, results[g].receiver>> = key}

ResultQuantity(r) == SumSeq([k \in DOMAIN r.data |-> r.data[k][3]])

C26_EveryTransferOnce ==
    \A key \in BatchKeys(previews) :
        key[1] # key[2] =>
            /\ Cardinality(ResultsOf(key)) = 1
            /\ \A g \in ResultsOf(key) : results[g].data = LinesUnder(previews, key)

C26_DistinctBatches ==
    \A g, h \in DOMAIN results :
        g # h => <<results[g].sender, results[g].receiver>>
                    # <<results[h].sender, results[h].receiver>>

C26_SameTotal ==
    SumSeq([g \in DOMAIN results |-> ResultQuantity(results[g])])
        = SumSeq([k \in DOMAIN previews |-> total_quantity(previews[k])])

RegularResults == SelectSeq(results, LAMBDA r : r.sender # r.receiver)

RegularLines(pvs) ==
    SelectSeq(TransferLines(pvs),
              LAMBDA l : BatchKey(l.transfer)[1] # BatchKey(l.transfer)[2])

C26_RegularTotal ==
    SumSeq([g \in DOMAIN RegularResults |-> ResultQuantity(RegularResults[g])])
        = SumSeq([k \in DOMAIN RegularLines(previews) |->
                    RegularLines(previews)[k].transfer.quantity])

Returned == pc \in {"done", "executed"}

NamedRows(d) == {i \in DOMAIN d.rows : d.rows[i].product \notin {<<"nan">>, <<"">>}}

NothingToMove(i) ==
    IF engine = "distributor"
    THEN \/ SourceQty(df, source, i) = 0
         \/ \A store \in ActiveInTable(config, df) : StoreQty(df, i, store) > 0
    ELSE \A store \in ActiveInTable(config, df) :
            StoreQty(df, i, store) <= config.balance_threshold

C22_OnePreviewPerRow ==
    Returned =>
        /\ Len(previews) = Cardinality(NamedRows(df))
        /\ \A i \in NamedRows(df) :
              /\ Cardinality(PreviewsOfRow(previews, i)) = 1
              /\ \A k \in PreviewsOfRow(previews, i) :
                    /\ previews[k].row_index = excel_row(i)
                    /\ previews[k].product_name = df.rows[i].product
                    /\ NothingToMove(i) => previews[k].transfers = <<>>
        /\ engine = "distributor" =>
              \A k \in 1..(Len(previews) - 1) :
                  previews[k].row_index < previews[k + 1].row_index

\* a distributor pass over a table with an unnamed row, whose previews were
\* created in another order than the rows', one of them without transfers
C22_Witness ==
    /\ pc = "done"
    /\ engine = "distributor"
    /\ NamedRows(df) # DOMAIN df.rows
    /\ previews_dict # previews
    /\ \E k \in DOMAIN previews : previews[k].transfers = <<>>
    /\ \E k \in DOMAIN previews : previews[k].transfers # <<>>

(***************************************************************************)
(* C23: get_stock_value yields 0 for a blank, NaN, non-numeric or          *)
(* placeholder cell and a non-negative integer for every other cell: no    *)
(* quantity a pass has read from the table is negative.                    *)
(***************************************************************************)
CellsOfRow(d, i) ==
    {d.rows[i].stock, d.rows[i].photo} \cup {d.rows[i].stores[c] : c \in d.columns}

C23_StockValueNonNegative ==
    Returned =>
        \A i \in Range(df_filtered(df)) :
            /\ SourceQty(df, source, i) >= 0
            /\ \A store \in ActiveInTable(config, df) : StoreQty(df, i, store) >= 0
            /\ \A cell \in CellsOfRow(df, i) :
                  /\ cell[1] # "num" => get_stock_value(cell) = 0
                  /\ get_stock_value(cell) >= 0

(***************************************************************************)
(* C24: apply_transfers_to_inventory writes, for each row with transfers,  *)
(* max(0, original - total transferred) into the source cell, appends the  *)
(* warning of that row exactly when original - total transferred is        *)
(* negative, and goes on with the rows that follow; no source quantity it  *)
(* writes is negative.                                                     *)
(***************************************************************************)
\* the number the workbook holds in the source cell of row i (0 if none)
OriginalQty(i) ==
    LET cell == SourceCell(original_file.rows[i], source)
    IN IF cell[1] = "num" THEN cell[2] ELSE 0

RowsWithTransfers == {k \in DOMAIN previews : previews[k].transfers # <<>>}

Overdrawn(k) == OriginalQty(previews[k].original_idx) < total_quantity(previews[k])

WarningsOf(k) ==
    {w \in DOMAIN updated.warnings :
        updated.warnings[w] = <<"source_below_transfer", previews[k].row_index>>}

C24_SourceClampedAndWarned ==
    (pc = "updated" /\ source \in original_file.sources) =>
        \A k \in RowsWithTransfers :
            LET i == previews[k].original_idx
                left == OriginalQty(i) - total_quantity(previews[k])
                written == SourceCell(updated.file.rows[i], source)
            IN /\ written = Num(IF left > 0 THEN left ELSE 0)
               /\ written[2] >= 0
               /\ Cardinality(WarningsOf(k)) = (IF left < 0 THEN 1 ELSE 0)

\* the first row is overdrawn and warned about, a later row is written
\* without a warning
C24_Witness ==
    /\ pc = "updated"
    /\ \E k, m \in RowsWithTransfers :
          /\ k < m
          /\ Overdrawn(k)
          /\ WarningsOf(k) # {}
          /\ ~Overdrawn(m)
          /\ SourceCell(updated.file.rows[previews[m].original_idx], source)
                # SourceCell(original_file.rows[previews[m].original_idx], source)

(***************************************************************************)
(* C25: extract_store_id yields the number of a label's 5 to 7 digit code  *)
(* whatever the number of zeros before the code, so a sales label with     *)
(* leading zeros resolves through build_store_id_map to the configured     *)
(* store with that code; a label that does not start with such a code      *)
(* followed by whitespace and a name yields None.                          *)
(***************************************************************************)
\* the ways to read the label as zeros, a code of 5 to 7 digits,
\* whitespace and a name: <<z, n>> for z zeros and a code of n digits
CodeReadings(label) ==
    {zn \in (0..Len(label)) \X (5..7) :
        /\ zn[1] + zn[2] < Len(label)
        /\ SubSeq(label, 1, zn[1]) = Zeros(zn[1])
        /\ \A k \in 1..zn[2] : IsDigit(label[zn[1] + k])
        /\ IsSpace(label[zn[1] + zn[2] + 1])
        /\ \E k \in (zn[1] + zn[2] + 2)..Len(label) : ~IsSpace(label[k])}

CodeNumber(label, zn) == IntOfDigits(SubSeq(label, zn[1] + 1, zn[1] + zn[2]))

\* the configured labels whose own code has the number n
ConfiguredWith(n) ==
    {k \in DOMAIN config.store_priority :
        \E zn \in CodeReadings(config.store_priority[k]) :
            CodeNumber(config.store_priority[k], zn) = n}

C25_LeadingZerosIgnored ==
    pc = "parsed" =>
        /\ \A zn \in CodeReadings(cell_str) :
              /\ label_id = <<CodeNumber(cell_str, zn)>>
              /\ \A k \in ConfiguredWith(CodeNumber(cell_str, zn)) :
                    CodeNumber(cell_str, zn) # 0 =>
                        MapGet(build_store_id_map_of_labels(config.store_priority),
                               label_id[1], None) = config.store_priority[k]
        /\ CodeReadings(cell_str) = {} => label_id = None

\* a sales label whose code follows zeros that make the run of digits
\* longer than seven, resolved to the configured store with that code
C25_Witness ==
    /\ pc = "parsed"
    /\ \E zn \in CodeReadings(cell_str) :
          /\ zn[1] + zn[2] > 7
          /\ ConfiguredWith(CodeNumber(cell_str, zn)) # {}
          /\ label_id = <<CodeNumber(cell_str, zn)>>

(***************************************************************************)
(* C28: in every preview StockDistributor.preview returns, a skip_reason   *)
(* is set only when nothing moves for the row: skip_reason set implies an  *)
(* empty transfer list.                                                    *)
(***************************************************************************)
C28_SkipReasonMeansNoTransfer ==
    (Returned /\ engine = "distributor") =>
        \A k \in DOMAIN previews :
            previews[k].skip_reason # None => previews[k].transfers = <<>>

(***************************************************************************)
(* C29: in StockDistributor.preview a minimum-sizes veto skips only the    *)
(* store it is about: the pass goes on with the next store of the same     *)
(* product, and a later store for which the rule is inactive or satisfied  *)
(* receives its unit on each of the rows it lacks, the rows an earlier     *)
(* store was vetoed on included.                                           *)
(***************************************************************************)
\* the rows of the current product a store could be given now
Offered(store) ==
    {i \in RowsOfProduct(df, CurProduct) :
        /\ SourceQty(df, source, i) > 0
        /\ StoreQty(df, i, store) = 0
        /\ remaining_stock[i] > 0}

StoreTurn == pc = "dist_store" /\ CurStore \notin config.excluded_stores

Vetoed(store) ==
    /\ store \notin config.excluded_stores
    /\ RuleInForce(df, CurProduct, store)
    /\ Cardinality(Offered(store)) < MIN_SIZES_TO_ADD

C29_VetoMovesToNextStore ==
    (StoreTurn /\ Vetoed(CurStore)) =>
        /\ previews_dict' = previews_dict
        /\ remaining_stock' = remaining_stock
        /\ store_i < Len(full_priority) =>
              /\ pc' = "dist_store"
              /\ prod_i' = prod_i
              /\ full_priority' = full_priority
              /\ store_i' = store_i + 1

C29_LaterStoreStillReceives ==
    (/\ StoreTurn
     /\ \E j \in 1..(store_i - 1) : Vetoed(full_priority[j])
     /\ ~Vetoed(CurStore))
    => \A i \in Offered(CurStore) :
          /\ UnitsTo(previews_dict', i, CurStore) = UnitsTo(previews_dict, i, CurStore) + 1
          /\ remaining_stock'[i] = remaining_stock[i] - 1

C29_VetoSkipsOnlyThatStore ==
    [][C29_VetoMovesToNextStore /\ C29_LaterStoreStillReceives]_vars

\* a returned row on which a store was vetoed and a store after it in the
\* priority list received a unit
C29_Witness ==
    /\ pc = "done"
    /\ engine = "distributor"
    /\ ~sales_data.loaded
    /\ \E i \in Range(df_filtered(df)) :
          \E a, b \in DOMAIN config.store_priority :
              /\ a < b
              /\ HasSkipRecord(previews, i, config.store_priority[a], "min_sizes")
              /\ UnitsTo(previews, i, config.store_priority[b]) > 0

(***************************************************************************)
(* C27: InventoryBalancer takes the senders of a row in non-increasing     *)
(* order of on-hand quantity, equal quantities in the order of the         *)
(* resolved priority list: the transfers of a row's preview are grouped by *)
(* sender in that order, and a sender's unit to its partner comes before   *)
(* its transfer to the pool.                                               *)
(***************************************************************************)
ResolvedPriority(i) ==
    Bal_get_product_priority(config, sales_data, df.rows[i].product,
                             available_stores(config, df))[1]

\* the store of the row's resolved list a sender code belongs to
SenderStore(i, code) ==
    CHOOSE s \in Range(ResolvedPriority(i)) : CodeOf(s) = code

TakenBefore(i, s, t) ==
    \/ StoreQty(df, i, s) > StoreQty(df, i, t)
    \/ /\ StoreQty(df, i, s) = StoreQty(df, i, t)
       /\ IndexOf(ResolvedPriority(i), s) < IndexOf(ResolvedPriority(i), t)

C27_SendersHighestFirst ==
    engine = "balancer" =>
        \A k \in DOMAIN previews :
            LET ts == previews[k].transfers
                i == previews[k].original_idx
            IN \A a, b \in DOMAIN ts :
                  a < b =>
                     IF ts[a].sender = ts[b].sender
                     THEN /\ \A c \in a..b : ts[c].sender = ts[a].sender
                          /\ ~(ts[a].receiver = Pool /\ ts[b].receiver # Pool)
                     ELSE TakenBefore(i, SenderStore(i, ts[a].sender),
                                      SenderStore(i, ts[b].sender))

\* a row with two senders, the one later in the priority list holding
\* more, and a sender that gave to its partner and to the pool
C27_Witness ==
    /\ pc = "done"
    /\ engine = "balancer"
    /\ \E k \in DOMAIN previews :
          LET ts == previews[k].transfers
              i == previews[k].original_idx
          IN /\ \E a, b \in DOMAIN ts :
                   /\ a < b
                   /\ ts[a].sender # ts[b].sender
                   /\ IndexOf(ResolvedPriority(i), SenderStore(i, ts[b].sender))
                         < IndexOf(ResolvedPriority(i), SenderStore(i, ts[a].sender))
             /\ \E a \in DOMAIN ts :
                   /\ a < Len(ts)
                   /\ ts[a].sender = ts[a + 1].sender
                   /\ ts[a].receiver # Pool
                   /\ ts[a + 1].receiver = Pool

(***************************************************************************)
(* C30: across a whole InventoryBalancer pass a partner store receives at  *)
(* most one unit of any (product, size), whatever the number of senders    *)
(* and of rows with that product and size; the unit is recorded in the     *)
(* working inventory of the pass, and the caller's table stays as it was.  *)
(***************************************************************************)
\* the units the previews so far give the store of a product and size
PartnerUnits(product, variant, store) ==
    LET mine == SelectSeq(TransferLines(previews),
                          LAMBDA l : /\ l.item[1] = product
                                     /\ l.item[2] = variant
                                     /\ l.transfer.receiver = store)
    IN SumSeq([k \in DOMAIN mine |-> mine[k].transfer.quantity])

SizeLabels(d) == {VariantStr(d.rows[i].variant) : i \in DOMAIN d.rows}

C30_AtMostOneUnit ==
    engine = "balancer" =>
        \A product \in ProductNames(df), variant \in SizeLabels(df),
           store \in Range(config.store_priority) :
            /\ PartnerUnits(product, variant, store) <= 1
            /\ PartnerUnits(product, variant, store) = 1 =>
                  MapGet(working_inventory, <<product, variant, store>>, 0) = 1

C30_TableUntouched == df' = df

C30_PartnerGetsAtMostOne == [](C30_AtMostOneUnit) /\ [][C30_TableUntouched]_vars

\* a returned pass in which a partner was given its unit and, with the
\* table still showing 0 for it, a later sender of the row or a later row
\* of the same product and size sent its whole excess to the pool
C30_Witness ==
    /\ pc = "done"
    /\ engine = "balancer"
    /\ \E k, m \in DOMAIN previews :
          \E a \in DOMAIN previews[k].transfers, b \in DOMAIN previews[m].transfers :
             LET unit == previews[k].transfers[a]
                 later == previews[m].transfers[b]
             IN /\ k < m \/ (k = m /\ a < b)
                /\ previews[k].product_name = previews[m].product_name
                /\ previews[k].variant = previews[m].variant
                /\ unit.receiver # Pool
                /\ later.sender # unit.sender \/ k < m
                /\ later.receiver = Pool
                /\ get_paired_store(config, later.sender) = CodeOf(unit.receiver)
                /\ later.quantity = MaxExcess
                /\ StoreQty(df, previews[m].original_idx, unit.receiver) = 0

====
